---- MODULE Spec2Model ----
(***************************************************************************)
(* A model of HealthAssistant.cpp: the user registry (UserInfoManager),    *)
(* the two body-fat strategies (USNavyMethod, BmiMethod), the calorie and  *)
(* macronutrient derivation and the by-name entry points of                *)
(* HealthAssistant.                                                        *)
(*                                                                         *)
(* Representation of the C++ values:                                       *)
(*  - a UserInfo is a record; its field ptr is the address `new UserInfo`  *)
(*    returned (the registry stores pointers, two records with equal       *)
(*    fields are still two objects);                                       *)
(*  - the double measurements weight, waist, neck, hip and height are      *)
(*    integers counting tenths (72.5 kg is 725);                           *)
(*  - the local `double bfp` of the strategies is a record                 *)
(*    [nan, milli]: not-a-number, or the number in thousandths rounded     *)
(*    down;                                                                *)
(*  - carbs, protein and fat are integers counting 1/3600 gram, which      *)
(*    makes the three divisions of getMealPrep exact;                      *)
(*  - nullptr is the index 0 into userInfoList.                            *)
(***************************************************************************)
EXTENDS Integers, Sequences, FiniteSets, TLC

VARIABLES
    userInfoList,   \* UserInfoManager::userInfoList of the static userInfoManager
    nextPtr,        \* the address the next `new UserInfo` returns
    created,        \* history: created[p] is the record at address p as it was added
                    \* and how it came to be (via)
    erased,         \* history: the addresses deleteUser erased from the list
    fs,             \* the files: fs[filename] is the sequence of its lines, or NoFile,
                    \* Unopenable or Directory
    status,         \* "running", "crashed" (a null dereference, a trap) or "threw" (an
                    \* exception nobody catches)
    out,            \* what the last operation wrote to std::cout / std::cerr
    last            \* the last operation: its name, its argument and what it returned

vars == <<userInfoList, nextPtr, created, erased, fs, status, out, last>>

(***************************************************************************)
(* Bounds of the model.                                                    *)
(***************************************************************************)
\* The number of UserInfo objects one run allocates.
MaxUsers == 3

(***************************************************************************)
(* Diagnostics written by the program.                                     *)
(***************************************************************************)
MsgNoUserInList == "no user in list"
MsgUserNotFound == "user not found"
MsgAgeRange == "The body fat category cannot be determined because you are outside of the permitted age range."
MsgCalories == "This is ackward, your intake calarie wasn't able to be processed"

(***************************************************************************)
(* struct UserInfo: the default member initialisers.                       *)
(***************************************************************************)
NoBfp == <<0, "">>

\* A struct without the initialiser of daily_calories, which a new record
\* then holds as an indeterminate value: the slip C23 must tell from the
\* code.
UserInfo_CaloriesUninitialised(name, gender, age, weight, waist, neck, hip, height, lifestyle) ==
    [ptr |-> 0, name |-> name, gender |-> gender, age |-> age,
     weight |-> weight, waist |-> waist, neck |-> neck, hip |-> hip,
     height |-> height, lifestyle |-> lifestyle,
     bfp |-> <<0, "">>, daily_calories |-> 0 - 2147483647 - 1,
     carbs |-> 0, protein |-> 0, fat |-> 0]

UserInfo(name, gender, age, weight, waist, neck, hip, height, lifestyle) ==
    [ptr |-> 0, name |-> name, gender |-> gender, age |-> age,
     weight |-> weight, waist |-> waist, neck |-> neck, hip |-> hip,
     height |-> height, lifestyle |-> lifestyle,
     bfp |-> NoBfp, daily_calories |-> 0, carbs |-> 0, protein |-> 0, fat |-> 0]

\* The fields a user or a persisted line supplies.
InputFields == {"name", "gender", "age", "weight", "waist", "neck", "hip", "height", "lifestyle"}

SameInputs(u, v) == \A f \in InputFields : u[f] = v[f]

(***************************************************************************)
(* std::log10 on the arguments the model's measurements produce, in        *)
(* ten-thousandths, the argument in tenths: Log10e4(1000) is log10(100.0). *)
(***************************************************************************)
Log10e4(x) ==
    CASE x = 100 -> 10000
      [] x = 300 -> 14771
      [] x = 370 -> 15682
      [] x = 400 -> 16021
      [] x = 500 -> 16990
      [] x = 525 -> 17202
      [] x = 570 -> 17559
      [] x = 595 -> 17745
      [] x = 625 -> 17959
      [] x = 670 -> 18261
      [] x = 825 -> 19165
      [] x = 850 -> 19294
      [] x = 900 -> 19542
      [] x = 1000 -> 20000
      [] x = 1270 -> 21038
      [] x = 1375 -> 21383
      [] x = 1400 -> 21461
      [] x = 1470 -> 21673
      [] x = 1550 -> 21903
      [] x = 1600 -> 22041
      [] x = 1650 -> 22175
      [] x = 1675 -> 22240
      [] x = 1720 -> 22355
      [] x = 1725 -> 22368
      [] x = 1745 -> 22418
      [] x = 1800 -> 22553
      [] x = 1875 -> 22730

(***************************************************************************)
(* The double arithmetic of the strategies.                                *)
(***************************************************************************)
Num(milli) == [nan |-> FALSE, milli |-> milli]
NaN == [nan |-> TRUE, milli |-> 0]

\* bfp < k for a double bfp: every comparison with NaN is false.
Less(bfp, kMilli) == ~bfp.nan /\ bfp.milli < kMilli

\* 495.0 / (c0 - c1*log10(arg) + c2*log10(height)) - 450.0, in thousandths.
\* c0 is in 1e-9, c1 and c2 in 1e-5. log10 of a negative number is NaN and
\* log10(0) is -infinity, which makes the quotient 0.
NavyFormula(c0, c1, c2, arg, height) ==
    IF arg < 0 THEN NaN
    ELSE IF arg = 0 THEN Num(0 - 450000)
    ELSE LET D9 == c0 - c1 * Log10e4(arg) + c2 * Log10e4(height)
             D6 == D9 \div 1000
             q  == 495000000 \div D6
             r  == 495000000 % D6
         IN  Num(q * 1000 + (r * 1000) \div D6 - 450000)

\* What an int read from an indeterminate or unrepresentable double may hold.
GarbageInts == {0 - 2147483647 - 1, 0}

\* static_cast<int>(bfp): truncation toward zero; undefined for NaN.
StaticCastInt(bfp) ==
    IF bfp.nan THEN GarbageInts
    ELSE IF bfp.milli >= 0 THEN {bfp.milli \div 1000}
    ELSE {0 - ((0 - bfp.milli) \div 1000)}

\* One four-way if / else-if chain of the strategies.
Chain(bfp, low, normal, high, prefix) ==
    IF Less(bfp, low) THEN prefix \o "Low"
    ELSE IF Less(bfp, normal) THEN prefix \o "Normal"
    ELSE IF Less(bfp, high) THEN prefix \o "High"
    ELSE prefix \o "Very High"

\* The state of the locals bfp and category at line 676, and what was printed.
\* set is FALSE when no branch assigned bfp.
Locals(set, bfp, category, printed) ==
    [set |-> set, bfp |-> bfp, category |-> category, out |-> printed]

\* An age outside every band: category stays empty and the message is printed.
OutOfAgeRange(bfp) == Locals(TRUE, bfp, "", <<MsgAgeRange>>)

(***************************************************************************)
(* USNavyMethod::getBfp on a UserInfo, lines 539-678, up to the assignment.   *)
(* UserStats::usNavyMethod, lines 1563-1702, is the same text.             *)
(***************************************************************************)
USNavyLocals(user) ==
    IF user.gender = "female" THEN
        LET bfp == NavyFormula(1295790000, 35004, 22100,
                               user.waist + user.hip - user.neck, user.height)
        IN  IF user.age >= 20 /\ user.age <= 39
                THEN Locals(TRUE, bfp, Chain(bfp, 21000, 33000, 39000, "USNavy: "), <<>>)
            ELSE IF user.age >= 40 /\ user.age <= 59
                THEN Locals(TRUE, bfp, Chain(bfp, 23000, 34000, 40000, "USNavy: "), <<>>)
            ELSE IF user.age >= 60 /\ user.age <= 79
                THEN Locals(TRUE, bfp, Chain(bfp, 24000, 36000, 42000, "USNavy: "), <<>>)
            ELSE OutOfAgeRange(bfp)
    ELSE IF user.gender = "male" THEN
        LET bfp == NavyFormula(1032400000, 19077, 15456,
                               user.waist - user.neck, user.height)
        IN  IF user.age >= 20 /\ user.age <= 39
                THEN Locals(TRUE, bfp, Chain(bfp, 8000, 20000, 25000, "USNavy: "), <<>>)
            ELSE IF user.age >= 40 /\ user.age <= 59
                THEN Locals(TRUE, bfp, Chain(bfp, 11000, 22000, 28000, "USNavy: "), <<>>)
            ELSE IF user.age >= 60 /\ user.age <= 79
                THEN Locals(TRUE, bfp, Chain(bfp, 13000, 25000, 30000, "USNavy: "), <<>>)
            ELSE OutOfAgeRange(bfp)
    ELSE Locals(FALSE, NaN, "", <<>>)

\* Line 677: user->bfp = std::make_pair(static_cast<int>(bfp), category).
\* The results the call may have: the pair stored and what was printed. A bfp
\* no branch assigned is read uninitialised.
PairStored(locals) ==
    {[bfp |-> <<v, locals.category>>, out |-> locals.out] :
        v \in (IF locals.set THEN StaticCastInt(locals.bfp) ELSE GarbageInts)}

USNavyMethod_getBfp(user) == PairStored(USNavyLocals(user))

(***************************************************************************)
(* BmiMethod::getBfp on a UserInfo, lines 687-713; UserStats::bmiMethod,      *)
(* lines 1712-1738, is the same text.                                      *)
(* bfp = weight*100*100 / (height*height): with both in tenths the         *)
(* quotient is weight*100000 / height^2, here rounded down to hundredths,  *)
(* which decides every comparison of the chain exactly.                    *)
(***************************************************************************)
\* A ratio method whose Normal band ends at 24 for women: the slip C7 must
\* tell from the code.
BmiLocals_ByGender(user) ==
    LET h2  == user.height * user.height
        num == user.weight * 100000
        bfp == Num((num \div h2) * 1000 + (((num % h2) * 100) \div h2) * 10)
    IN  IF user.gender = "female"
        THEN Locals(TRUE, bfp, Chain(bfp, 18500, 24000, 30000, "Bmi: "), <<>>)
        ELSE Locals(TRUE, bfp, Chain(bfp, 18500, 25000, 30000, "Bmi: "), <<>>)

BmiLocals(user) ==
    LET h2  == user.height * user.height
        num == user.weight * 100000
        bfp == Num((num \div h2) * 1000 + (((num % h2) * 100) \div h2) * 10)
    IN  Locals(TRUE, bfp, Chain(bfp, 18500, 25000, 30000, "Bmi: "), <<>>)

BmiMethod_getBfp(user) == PairStored(BmiLocals(user))

\* The virtual getBfp on a UserInfo of the object the call is made through.
Strategies == {"USNavyMethod", "BmiMethod"}

getBfp(method, user) ==
    IF method = "USNavyMethod" THEN USNavyMethod_getBfp(user)
    ELSE BmiMethod_getBfp(user)

(***************************************************************************)
(* HealthAssistant::getDailyCalories on a UserInfo, lines 752-857;         *)
(* UserStats::getDailyCalories, lines 1749-1854, is the same text.         *)
(***************************************************************************)
\* One if / else-if chain over the lifestyle; calories keeps its initial 0
\* when no branch matches.
\* A chain with the moderate and active branches exchanged: the slip C9 must
\* tell from the code.
ByLifestyle_Swapped(lifestyle, sedentary, moderate, active) ==
    IF lifestyle = "sedentary" THEN sedentary
    ELSE IF lifestyle = "moderate" THEN active
    ELSE IF lifestyle = "active" THEN moderate
    ELSE 0

ByLifestyle(lifestyle, sedentary, moderate, active) ==
    IF lifestyle = "sedentary" THEN sedentary
    ELSE IF lifestyle = "moderate" THEN moderate
    ELSE IF lifestyle = "active" THEN active
    ELSE 0

\* The value of the local calories at line 856, and what was printed.
CaloriesLocals(user) ==
    IF user.gender = "male" THEN
        [out |-> <<>>, calories |->
            IF user.age >= 19 /\ user.age <= 30
                THEN ByLifestyle(user.lifestyle, 2400, 2800, 3000)
            ELSE IF user.age >= 31 /\ user.age <= 50
                THEN ByLifestyle(user.lifestyle, 2200, 2600, 3000)
            ELSE IF user.age > 50
                THEN ByLifestyle(user.lifestyle, 2000, 2400, 2800)
            ELSE 0]
    ELSE IF user.gender = "female" THEN
        [out |-> <<>>, calories |->
            IF user.age >= 19 /\ user.age <= 30
                THEN ByLifestyle(user.lifestyle, 2000, 2200, 2400)
            ELSE IF user.age >= 31 /\ user.age <= 50
                THEN ByLifestyle(user.lifestyle, 1800, 2000, 2200)
            ELSE IF user.age > 50
                THEN ByLifestyle(user.lifestyle, 1600, 1800, 2200)
            ELSE 0]
    ELSE [out |-> <<MsgCalories>>, calories |-> 0]

\* An advisor that prints its message whenever the result is 0: the slip C10
\* must tell from the code.
getDailyCalories_ReportsAnyZero(user) ==
    [user |-> [user EXCEPT !.daily_calories = CaloriesLocals(user).calories],
     out  |-> IF CaloriesLocals(user).calories = 0 THEN <<MsgCalories>> ELSE <<>>]

\* An advisor that brings the macronutrients up to date with the calories it
\* stores: the slip C29 must tell from the code.
getDailyCalories_RefreshesMacros(user) ==
    [user |-> [user EXCEPT !.daily_calories = CaloriesLocals(user).calories,
                           !.carbs   = CaloriesLocals(user).calories * 450,
                           !.protein = CaloriesLocals(user).calories * 270,
                           !.fat     = CaloriesLocals(user).calories * 80],
     out  |-> CaloriesLocals(user).out]

\* Line 856: user->daily_calories = calories.
getDailyCalories(user) ==
    [user |-> [user EXCEPT !.daily_calories = CaloriesLocals(user).calories],
     out  |-> CaloriesLocals(user).out]

(***************************************************************************)
(* HealthAssistant::getMealPrep on a UserInfo, lines 916-932, and          *)
(* UserStats::getMealPrep, lines 1866-1882. A share is in percent, the     *)
(* result in 1/3600 gram: calories * share / 100 / kcalPerGram grams.      *)
(***************************************************************************)
Grams(calories, share, kcalPerGram) == calories * share * (36 \div kcalPerGram)

\* A split that divides the fat calories by 4 like the other two: the slip
\* C11 must tell from the code.
getMealPrep_FatAt4(user) ==
    [user EXCEPT !.carbs   = Grams(user.daily_calories, 50, 4),
                 !.protein = Grams(user.daily_calories, 30, 4),
                 !.fat     = Grams(user.daily_calories, 20, 4)]

getMealPrep(user) ==
    [user EXCEPT !.carbs   = Grams(user.daily_calories, 50, 4),
                 !.protein = Grams(user.daily_calories, 30, 4),
                 !.fat     = Grams(user.daily_calories, 20, 9)]

(***************************************************************************)
(* UserInfoManager: the registry.                                          *)
(***************************************************************************)
\* UserInfoManager::getUserInfo, lines 868-887: the place in the list of the
\* record returned, 0 for nullptr.
RECURSIVE FirstNamed(_, _, _)
FirstNamed(list, username, i) ==
    IF i > Len(list) THEN 0
    ELSE IF list[i].name = username THEN i
    ELSE FirstNamed(list, username, i + 1)

\* A lookup that keeps scanning and returns the last record of that name: the
\* slip C3 must tell from the code.
getUserInfo_LastMatch(list, username) ==
    LET hits == {i \in 1..Len(list) : list[i].name = username}
    IN  IF list = <<>> THEN [user |-> 0, out |-> <<MsgNoUserInList>>]
        ELSE IF hits # {}
            THEN [user |-> CHOOSE i \in hits : \A j \in hits : j <= i, out |-> <<>>]
        ELSE [user |-> 0, out |-> <<MsgUserNotFound>>]

getUserInfo(list, username) ==
    IF list = <<>> THEN [user |-> 0, out |-> <<MsgNoUserInList>>]
    ELSE IF FirstNamed(list, username, 1) # 0
        THEN [user |-> FirstNamed(list, username, 1), out |-> <<>>]
    ELSE [user |-> 0, out |-> <<MsgUserNotFound>>]

\* A delete that erases every record of that name (std::remove_if with erase):
\* the slip C2 must tell from the code.
deleteUser_AllMatches(list, username) ==
    SelectSeq(list, LAMBDA u : u.name # username)

\* UserInfoManager::deleteUser, lines 407-423: the iterator walks to the first
\* record of that name, or to end(); erase(it) unless it is end().
deleteUser(list, username) ==
    LET it == FirstNamed(list, username, 1)
    IN  IF it # 0
        THEN SubSeq(list, 1, it - 1) \o SubSeq(list, it + 1, Len(list))
        ELSE list

\* An add that rejects a record whose name is already present: the slip C1
\* must tell from the code.
addUserInfo_Dedup(list, userInfo) ==
    IF \E i \in 1..Len(list) : list[i].name = userInfo.name
    THEN list
    ELSE Append(list, userInfo)

\* UserInfoManager::addUserInfo on a UserInfo, lines 1462-1464: push_back.
addUserInfo(list, userInfo) == Append(list, userInfo)

(***************************************************************************)
(* Text: std::getline, std::stoi and std::stod on the tokens of a line.    *)
(* A std::istringstream is [rest, good]: the characters not yet read, and  *)
(* whether the stream is still good().                                     *)
(***************************************************************************)
RECURSIVE IndexOf(_, _, _)
IndexOf(s, c, i) ==
    IF i > Len(s) THEN 0
    ELSE IF SubSeq(s, i, i) = c THEN i
    ELSE IndexOf(s, c, i + 1)

\* getline(iss, str, ','): on a stream that is not good the sentry fails and str
\* keeps its old value; otherwise str is what precedes the next comma, or all
\* that is left, which also sets eofbit.
getlineComma(iss, str) ==
    IF ~iss.good THEN [iss |-> iss, str |-> str]
    ELSE LET k == IndexOf(iss.rest, ",", 1)
         IN  IF k # 0
             THEN [iss |-> [rest |-> SubSeq(iss.rest, k + 1, Len(iss.rest)), good |-> TRUE],
                   str |-> SubSeq(iss.rest, 1, k - 1)]
             ELSE [iss |-> [rest |-> "", good |-> FALSE], str |-> iss.rest]

\* getline(iss, str): the rest of the line.
getlineRest(iss, str) ==
    IF ~iss.good THEN [iss |-> iss, str |-> str]
    ELSE [iss |-> [rest |-> "", good |-> FALSE], str |-> iss.rest]

DigitChars == {"0", "1", "2", "3", "4", "5", "6", "7", "8", "9"}

DigitValue(c) ==
    CASE c = "0" -> 0 [] c = "1" -> 1 [] c = "2" -> 2 [] c = "3" -> 3 [] c = "4" -> 4
      [] c = "5" -> 5 [] c = "6" -> 6 [] c = "7" -> 7 [] c = "8" -> 8 [] c = "9" -> 9

RECURSIVE SkipSpace(_)
SkipSpace(s) == IF s # "" /\ Head(s) = " " THEN SkipSpace(Tail(s)) ELSE s

SkipSign(s) == IF s # "" /\ Head(s) \in {"+", "-"} THEN Tail(s) ELSE s
Negative(s) == s # "" /\ Head(s) = "-"

\* The digits s starts with: how many, their value, and what follows them.
RECURSIVE Digits(_, _, _)
Digits(s, n, val) ==
    IF s # "" /\ Head(s) \in DigitChars
    THEN Digits(Tail(s), n + 1, val * 10 + DigitValue(Head(s)))
    ELSE [n |-> n, val |-> val, rest |-> s]

Signed(neg, val) == IF neg THEN 0 - val ELSE val

\* std::stoi(token): blanks, a sign, digits; what follows the digits is
\* ignored; std::invalid_argument when there is no digit.
stoi(token) ==
    LET t == SkipSpace(token)
        d == Digits(SkipSign(t), 0, 0)
    IN  IF d.n = 0 THEN [threw |-> TRUE, val |-> 0, what |-> "stoi"]
        ELSE [threw |-> FALSE, val |-> Signed(Negative(t), d.val), what |-> ""]

\* std::stod(token), in tenths: blanks, a sign, digits, a point, digits, with a
\* digit on one side of the point at least. The tokens of the model carry one
\* decimal at most and no exponent.
stod(token) ==
    LET t  == SkipSpace(token)
        ip == Digits(SkipSign(t), 0, 0)
        fp == IF ip.rest # "" /\ Head(ip.rest) = "."
              THEN Digits(Tail(ip.rest), 0, 0)
              ELSE [n |-> 0, val |-> 0, rest |-> ip.rest]
        tenth == IF fp.n = 0 THEN 0 ELSE DigitValue(SubSeq(Tail(ip.rest), 1, 1))
    IN  IF ip.n + fp.n = 0 THEN [threw |-> TRUE, val |-> 0, what |-> "stod"]
        ELSE [threw |-> FALSE, val |-> Signed(Negative(t), ip.val * 10 + tenth), what |-> ""]

(***************************************************************************)
(* The body of the while loops of readFromFile (lines 1027-1048),          *)
(* HealthAssistant::massLoadAndCompute (1422-1443) and                     *)
(* UserStats::massLoadAndCompute (1510-1531): one line to one UserInfo, or *)
(* the exception of the first conversion that fails.                       *)
(***************************************************************************)
\* A conversion of the hip token without the test for an empty one: the slip
\* C15 must tell from the code.
stodHip_NoEmptyTest(token) == stod(token)

\* Line 1044: user->hip = token.empty() ? 0.0 : std::stod(token).
stodHip(token) ==
    IF token = "" THEN [threw |-> FALSE, val |-> 0, what |-> ""] ELSE stod(token)

\* getline(iss, token, ',') once more into the same token.
getlineToken(g) == getlineComma(g.iss, g.str)

Threw(what) == [threw |-> TRUE, what |-> what, user |-> UserInfo("", "", 0, 0, 0, 0, 0, 0, "")]

Decode(line) ==
    LET g1 == getlineComma([rest |-> line, good |-> TRUE], "")
        g2 == getlineComma(g1.iss, "")
        g3 == getlineComma(g2.iss, "")
        age == stoi(g3.str)
        g4 == getlineToken(g3)
        weight == stod(g4.str)
        g5 == getlineToken(g4)
        waist == stod(g5.str)
        g6 == getlineToken(g5)
        neck == stod(g6.str)
        g7 == getlineToken(g6)
        hip == stodHip(g7.str)
        g8 == getlineToken(g7)
        height == stod(g8.str)
        g9 == getlineRest(g8.iss, "")
    IN  IF age.threw THEN Threw(age.what)
        ELSE IF weight.threw THEN Threw(weight.what)
        ELSE IF waist.threw THEN Threw(waist.what)
        ELSE IF neck.threw THEN Threw(neck.what)
        ELSE IF hip.threw THEN Threw(hip.what)
        ELSE IF height.threw THEN Threw(height.what)
        ELSE [threw |-> FALSE, what |-> "",
              user |-> UserInfo(g1.str, g2.str, age.val, weight.val, waist.val,
                                neck.val, hip.val, height.val, g9.str)]

\* A file is NoFile (it does not exist), Unopenable (it exists and cannot be
\* opened, for reading or for appending), Directory or the sequence of its
\* lines, each ended by a newline.
NoFile == "no file"
Unopenable == "unopenable"
\* A directory of that name: std::ifstream opens it, tellg() is not 0 and
\* getline reads nothing from it; it cannot be opened for appending.
Directory == "directory"

ExcCannotOpen == "Cannot open file as it may not exist or cannot be opened: "
ExcEmpty == "File is empty: "
ErrOpening == "Error opening file: "

\* Open checks that take a file of zero bytes for a file of no records: the
\* slip C17 must tell from the code.
openToRead_EmptyIsFine(file, filename) ==
    IF file = NoFile \/ file = Unopenable
    THEN [threw |-> TRUE, what |-> ExcCannotOpen \o filename]
    ELSE [threw |-> FALSE, what |-> ""]

\* The checks before the while loop of readFromFile (lines 1010-1023) and of
\* both massLoadAndCompute (1405-1418, 1497-1506): is_open() and tellg().
openToRead(file, filename) ==
    IF file = NoFile \/ file = Unopenable
    THEN [threw |-> TRUE, what |-> ExcCannotOpen \o filename]
    ELSE IF file = Directory
    THEN [threw |-> FALSE, what |-> ""]
    ELSE IF file = <<>>
    THEN [threw |-> TRUE, what |-> ExcEmpty \o filename]
    ELSE [threw |-> FALSE, what |-> ""]

\* The lines getline delivers from a stream that passed the checks.
Lines(file) == IF file = Directory THEN <<>> ELSE file

(***************************************************************************)
(* The inputs of the model.                                                *)
(***************************************************************************)
Body(weight, waist, neck, hip, height) ==
    [weight |-> weight, waist |-> waist, neck |-> neck, hip |-> hip, height |-> height]

\* Measurements in tenths. The last three have a waist not above the neck.
Bodies ==
    { Body(500, 650, 350, 970, 1650),   Body(950, 1225, 400, 1050, 1600),
      Body(810, 900, 400, 900, 1800),   Body(900, 975, 380, 1150, 1800),
      Body(725, 750, 380, 900, 1725),   Body(600, 875, 350, 850, 1800),
      Body(680, 800, 400, 1150, 1650),  Body(1000, 925, 300, 1050, 1800),
      Body(760, 950, 380, 900, 1600),   Body(1100, 1050, 380, 1050, 1800),
      Body(700, 450, 350, 900, 1800),   Body(700, 380, 380, 900, 1725),
      Body(700, 350, 400, 900, 1650) }

Ages == {18, 19, 20, 30, 31, 39, 40, 50, 51, 59, 60, 79, 80}

\* "other" and "lazy" stand for any string the code does not recognise.
Genders == {"male", "female", "other"}
Lifestyles == {"sedentary", "moderate", "active", "lazy"}

\* The names records carry, the names the registry operations are called with
\* and the names the computations are called with; nobody is called jill.
Names == {"john", "jack"}
CallNames == Names \cup {"jill"}
ComputeNames == {"john", "jill"}

\* UserInfoManager::addUserInfo(), lines 288-302: what the prompts accept.
\* getGender takes male or female, getAge 20..79, getLifestyle one of the
\* three, and getHipMeasurement leaves hip at 0.0 unless the gender is female.
Prompted(name, gender, age, b, lifestyle) ==
    UserInfo(name, gender, age, b.weight, b.waist, b.neck,
             IF gender = "female" THEN b.hip ELSE 0, b.height, lifestyle)

PromptRecords ==
    { Prompted(n, "male", 28, Body(810, 900, 400, 900, 1800), "sedentary") : n \in Names }
    \cup
    { Prompted(n, "female", 45, Body(810, 750, 380, 900, 1800), "moderate") : n \in Names }

\* The files the program opens, and what they may hold when it starts.
FileNames == {"us_user_data.csv", "bmi_user_data.csv"}

FileSystems ==
    { [f \in FileNames |-> NoFile],
      [f \in FileNames |-> IF f = "us_user_data.csv"
                            THEN <<"john,other,28,81,90,40,,180,sedentary">>
                            ELSE <<>>],
      [f \in FileNames |-> IF f = "us_user_data.csv"
                            THEN <<"jack,male,28,81,90,40,,180,sedentary",
                                   "john,female,45,81,75,38,90.0,180,moderate">>
                            ELSE <<"john,male,28,81,90,40,,180,sedentary", "">>] }

(***************************************************************************)
(* The state after construction: the static userInfoManager is empty.      *)
(***************************************************************************)
Init ==
    /\ userInfoList = <<>>
    /\ nextPtr = 1
    /\ created = <<>>
    /\ erased = {}
    /\ fs \in FileSystems
    /\ status = "running"
    /\ out = <<>>
    /\ last = [op |-> "init", arg |-> "", ret |-> 0]

Ptrs(list) == {list[i].ptr : i \in 1..Len(list)}

\* What `user->field` does with user == nullptr: undefined behaviour. The
\* build of the Makefile faults on the access; the other outcome is a call
\* that returns with nothing stored.
NullDereference ==
    /\ status' \in {"crashed", "running"}
    /\ UNCHANGED <<userInfoList, nextPtr, created, erased, fs>>

(***************************************************************************)
(* The operations.                                                         *)
(***************************************************************************)
\* HealthAssistant::getUserDetails, lines 310-313, calling
\* UserInfoManager::addUserInfo(), lines 288-302.
AddUserInfo(u) ==
    /\ status = "running"
    /\ nextPtr <= MaxUsers
    /\ LET userInfo == [u EXCEPT !.ptr = nextPtr]
       IN  /\ userInfoList' = addUserInfo(userInfoList, userInfo)
           /\ created' = Append(created, [rec |-> userInfo, via |-> "prompt"])
    /\ nextPtr' = nextPtr + 1
    /\ out' = <<>>
    /\ last' = [op |-> "addUserInfo", arg |-> u.name, ret |-> nextPtr]
    /\ UNCHANGED <<erased, fs, status>>

\* HealthAssistant::deleteUser, lines 463-467.
DeleteUser(username) ==
    /\ status = "running"
    /\ userInfoList' = deleteUser(userInfoList, username)
    /\ erased' = erased \cup (Ptrs(userInfoList) \ Ptrs(userInfoList'))
    /\ out' = <<>>
    /\ last' = [op |-> "deleteUser", arg |-> username, ret |-> 0]
    /\ UNCHANGED <<nextPtr, created, fs, status>>

\* UserInfoManager::getUserInfo, lines 868-887, called on its own.
GetUserInfo(username) ==
    /\ status = "running"
    /\ LET r == getUserInfo(userInfoList, username)
       IN  /\ out' = r.out
           /\ last' = [op |-> "getUserInfo", arg |-> username,
                       ret |-> IF r.user = 0 THEN 0 ELSE userInfoList[r.user].ptr]
    /\ UNCHANGED <<userInfoList, nextPtr, created, erased, fs, status>>

\* USNavyMethod::getBfp and BmiMethod::getBfp by name, lines 512-529.
GetBfp(method, username) ==
    /\ status = "running"
    /\ last' = [op |-> method, arg |-> username, ret |-> 0]
    /\ LET r == getUserInfo(userInfoList, username)
       IN  IF r.user = 0
           THEN /\ out' = r.out
                /\ NullDereference
           ELSE \E res \in getBfp(method, userInfoList[r.user]) :
                    /\ userInfoList' = [userInfoList EXCEPT ![r.user].bfp = res.bfp]
                    /\ out' = r.out \o res.out
                    /\ UNCHANGED <<nextPtr, created, erased, fs, status>>

\* HealthAssistant::getDailyCalories by name, lines 723-727.
GetDailyCalories(username) ==
    /\ status = "running"
    /\ last' = [op |-> "getDailyCalories", arg |-> username, ret |-> 0]
    /\ LET r == getUserInfo(userInfoList, username)
       IN  IF r.user = 0
           THEN /\ out' = r.out
                /\ NullDereference
           ELSE LET res == getDailyCalories(userInfoList[r.user])
                IN  /\ userInfoList' = [userInfoList EXCEPT ![r.user] = res.user]
                    /\ out' = r.out \o res.out
                    /\ UNCHANGED <<nextPtr, created, erased, fs, status>>

\* HealthAssistant::getMealPrep by name, lines 897-901.
GetMealPrep(username) ==
    /\ status = "running"
    /\ last' = [op |-> "getMealPrep", arg |-> username, ret |-> 0]
    /\ LET r == getUserInfo(userInfoList, username)
       IN  IF r.user = 0
           THEN /\ out' = r.out
                /\ NullDereference
           ELSE /\ userInfoList' = [userInfoList EXCEPT ![r.user] = getMealPrep(@)]
                /\ out' = r.out
                /\ UNCHANGED <<nextPtr, created, erased, fs, status>>

\* HealthAssistant::massLoadAndCompute, lines 1403-1453, called through an
\* object of class method. The runs of the while loop over the lines left: a
\* line that does not decode ends the call with the exception, after the
\* UserInfo allocated for it and with the earlier lines' records added.
RECURSIVE massLoadLoop(_, _, _)
massLoadLoop(method, lines, st) ==
    IF lines = <<>> THEN {st}
    ELSE LET d == Decode(Head(lines))
             user == [d.user EXCEPT !.ptr = st.nextPtr]
         IN  IF d.threw
             THEN {[st EXCEPT !.nextPtr = @ + 1,
                              !.created = Append(@, [rec |-> user, via |-> "leaked"]),
                              !.status = "threw",
                              !.out = Append(@, d.what)]}
             ELSE UNION {
                    LET cal == getDailyCalories([user EXCEPT !.bfp = res.bfp])
                        userInfo == getMealPrep(cal.user)
                    IN  massLoadLoop(method, Tail(lines),
                            [st EXCEPT !.list = addUserInfo(@, userInfo),
                                       !.nextPtr = @ + 1,
                                       !.created = Append(@, [rec |-> userInfo, via |-> method]),
                                       !.out = @ \o res.out \o cal.out])
                    : res \in getBfp(method, user) }

MassLoadAndCompute(method, filename) ==
    /\ status = "running"
    /\ last' = [op |-> "massLoadAndCompute", arg |-> filename, ret |-> 0]
    /\ IF openToRead(fs[filename], filename).threw
       THEN /\ status' = "threw"
            /\ out' = <<openToRead(fs[filename], filename).what>>
            /\ UNCHANGED <<userInfoList, nextPtr, created>>
       ELSE /\ nextPtr + Len(Lines(fs[filename])) - 1 <= MaxUsers
            /\ \E st \in massLoadLoop(method, Lines(fs[filename]),
                              [list |-> userInfoList, nextPtr |-> nextPtr,
                               created |-> created, status |-> status, out |-> <<>>]) :
                    /\ userInfoList' = st.list
                    /\ nextPtr' = st.nextPtr
                    /\ created' = st.created
                    /\ status' = st.status
                    /\ out' = st.out
    /\ UNCHANGED <<erased, fs>>

Next ==
    \/ \E m \in Strategies, f \in FileNames : MassLoadAndCompute(m, f)
    \/ \E u \in PromptRecords : AddUserInfo(u)
    \/ \E n \in CallNames : DeleteUser(n)
    \/ \E n \in CallNames : GetUserInfo(n)
    \/ \E m \in Strategies, n \in ComputeNames : GetBfp(m, n)
    \/ \E n \in ComputeNames : GetDailyCalories(n)
    \/ \E n \in ComputeNames : GetMealPrep(n)

Spec == Init /\ [][Next]_vars

(***************************************************************************)
(* The strategies on one record at a time: the registry holds john, read   *)
(* from a file with any gender, age and body of the model, and jack, who   *)
(* has john's weight and height and differs in every other field.          *)
(***************************************************************************)
OtherGender(g) == IF g = "male" THEN "female" ELSE IF g = "female" THEN "other" ELSE "male"

Twin(u) ==
    UserInfo("jack", OtherGender(u.gender), 45, u.weight, 900, 400,
             IF u.hip = 900 THEN 970 ELSE 900, u.height, "active")

Loaded(list) == [p \in 1..Len(list) |-> [rec |-> list[p], via |-> "readFromFile"]]

Numbered(list) == [p \in 1..Len(list) |-> [list[p] EXCEPT !.ptr = p]]

InitWith(list) ==
    /\ userInfoList = Numbered(list)
    /\ nextPtr = Len(list) + 1
    /\ created = Loaded(Numbered(list))
    /\ erased = {}
    /\ fs = [f \in FileNames |-> NoFile]
    /\ status = "running"
    /\ out = <<>>
    /\ last = [op |-> "init", arg |-> "", ret |-> 0]

InitBfp ==
    \E g \in Genders, a \in Ages, b \in Bodies :
        LET john == UserInfo("john", g, a, b.weight, b.waist, b.neck, b.hip, b.height,
                             "sedentary")
        IN  InitWith(<<john, Twin(john)>>)

NextBfp == \E m \in Strategies, n \in CallNames : GetBfp(m, n)

SpecBfp == InitBfp /\ [][NextBfp]_vars

(***************************************************************************)
(* The calorie advisor on one record at a time: john, read from a file     *)
(* with any gender, age and lifestyle of the model.                        *)
(***************************************************************************)
InitCalories ==
    \E g \in Genders, a \in Ages, l \in Lifestyles :
        InitWith(<<UserInfo("john", g, a, 810, 900, 400, 900, 1800, l)>>)

NextCalories ==
    \/ \E n \in ComputeNames : GetDailyCalories(n)
    \/ \E n \in ComputeNames : GetMealPrep(n)

SpecCalories == InitCalories /\ [][NextCalories]_vars

(***************************************************************************)
(* Writing the registry to a file and reading it back.                     *)
(***************************************************************************)
Abs(x) == IF x < 0 THEN 0 - x ELSE x

\* operator<< on a double, given in tenths, with the stream's default format:
\* six significant digits and no trailing zeros. Below 100000 a tenth is kept;
\* from 100000 on the value is rounded to an integer, a half to the even one.
\* The measurements of the model stay below 999999.5, where the exponent form
\* would begin.
StreamDouble(tenths) ==
    LET a    == Abs(tenths)
        ip   == a \div 10
        f    == a % 10
        sign == IF tenths < 0 THEN "-" ELSE ""
    IN  IF a < 1000000
        THEN sign \o ToString(ip) \o (IF f = 0 THEN "" ELSE "." \o ToString(f))
        ELSE sign \o ToString(IF f > 5 \/ (f = 5 /\ ip % 2 = 1) THEN ip + 1 ELSE ip)

\* double_to_string(input, 1), lines 343-348: std::fixed with one decimal.
double_to_string(tenths) ==
    (IF tenths < 0 THEN "-" ELSE "") \o ToString(Abs(tenths) \div 10)
        \o "." \o ToString(Abs(tenths) % 10)

\* A line that also writes the hip of a man: the slip C12 must tell from the
\* code.
Encode_HipAlways(user) ==
    user.name \o "," \o user.gender \o "," \o ToString(user.age) \o ","
        \o StreamDouble(user.weight) \o "," \o StreamDouble(user.waist) \o ","
        \o StreamDouble(user.neck) \o "," \o double_to_string(user.hip) \o ","
        \o StreamDouble(user.height) \o "," \o user.lifestyle

\* A writer that writes every hip that was set: the slip C24 must tell from
\* the code.
Encode_HipWhenSet(user) ==
    user.name \o "," \o user.gender \o "," \o ToString(user.age) \o ","
        \o StreamDouble(user.weight) \o "," \o StreamDouble(user.waist) \o ","
        \o StreamDouble(user.neck) \o ","
        \o (IF user.hip # 0 THEN double_to_string(user.hip) ELSE "") \o ","
        \o StreamDouble(user.height) \o "," \o user.lifestyle

\* UserInfoManager::writeToFile, lines 956-964: the line of one record.
Encode(user) ==
    user.name \o "," \o user.gender \o "," \o ToString(user.age) \o ","
        \o StreamDouble(user.weight) \o "," \o StreamDouble(user.waist) \o ","
        \o StreamDouble(user.neck) \o ","
        \o (IF user.gender = "female" THEN double_to_string(user.hip) ELSE "") \o ","
        \o StreamDouble(user.height) \o "," \o user.lifestyle

\* The lines a file holds: none when it does not exist, cannot be opened or
\* is a directory.
Content(file) ==
    IF file = NoFile \/ file = Unopenable \/ file = Directory THEN <<>> ELSE file

\* A writer that truncates the target (no std::ios_base::app): the slip C13
\* must tell from the code.
writeToFile_Truncating(list, filename, file) ==
    IF file = Unopenable \/ file = Directory
    THEN [file |-> file, out |-> <<ErrOpening \o filename>>]
    ELSE [file |-> <<>> \o [i \in 1..Len(list) |-> Encode(list[i])], out |-> <<>>]

\* UserInfoManager::writeToFile, lines 946-974: opening for appending creates
\* a file that does not exist.
writeToFile(list, filename, file) ==
    IF file = Unopenable \/ file = Directory
    THEN [file |-> file, out |-> <<ErrOpening \o filename>>]
    ELSE [file |-> Content(file) \o [i \in 1..Len(list) |-> Encode(list[i])],
          out  |-> <<>>]

\* A readFromFile that gives the registry back as it was before the call when
\* a line does not decode: the rollback C28 must tell from the code.
RECURSIVE readLoop_RollBack(_, _)
readLoop_RollBack(lines, st) ==
    IF lines = <<>> THEN st
    ELSE LET d == Decode(Head(lines))
             user == [d.user EXCEPT !.ptr = st.nextPtr]
         IN  IF d.threw
             THEN [st EXCEPT !.list = userInfoList,
                             !.nextPtr = @ + 1,
                             !.created = Append(@, [rec |-> user, via |-> "leaked"]),
                             !.status = "threw",
                             !.out = Append(@, d.what)]
             ELSE readLoop_RollBack(Tail(lines),
                      [st EXCEPT !.list = addUserInfo(@, user),
                                 !.nextPtr = @ + 1,
                                 !.created = Append(@, [rec |-> user, via |-> "readFromFile"]),
                                 !.out = Append(@, Head(lines))])

\* UserInfoManager::readFromFile, lines 1025-1052: the runs of the while loop
\* over the lines left. A line that does not decode ends the call with the
\* exception, after the UserInfo allocated for it.
RECURSIVE readLoop(_, _)
readLoop(lines, st) ==
    IF lines = <<>> THEN st
    ELSE LET d == Decode(Head(lines))
             user == [d.user EXCEPT !.ptr = st.nextPtr]
         IN  IF d.threw
             THEN [st EXCEPT !.nextPtr = @ + 1,
                             !.created = Append(@, [rec |-> user, via |-> "leaked"]),
                             !.status = "threw",
                             !.out = Append(@, d.what)]
             ELSE readLoop(Tail(lines),
                      [st EXCEPT !.list = addUserInfo(@, user),
                                 !.nextPtr = @ + 1,
                                 !.created = Append(@, [rec |-> user, via |-> "readFromFile"]),
                                 !.out = Append(@, Head(lines))])

\* The number of lines a file of the model grows to.
MaxLines == 3

\* HealthAssistant::serialize, lines 984-987.
Serialize(filename) ==
    /\ status = "running"
    /\ Len(Content(fs[filename])) + Len(userInfoList) <= MaxLines
    /\ LET w == writeToFile(userInfoList, filename, fs[filename])
       IN  /\ fs' = [fs EXCEPT ![filename] = w.file]
           /\ out' = w.out
    /\ last' = [op |-> "serialize", arg |-> filename, ret |-> 0]
    /\ UNCHANGED <<userInfoList, nextPtr, created, erased, status>>

\* HealthAssistant::readFromFile, lines 1065-1068, calling
\* UserInfoManager::readFromFile, lines 1008-1055.
ReadFromFile(filename) ==
    /\ status = "running"
    /\ last' = [op |-> "readFromFile", arg |-> filename, ret |-> 0]
    /\ IF openToRead(fs[filename], filename).threw
       THEN /\ status' = "threw"
            /\ out' = <<openToRead(fs[filename], filename).what>>
            /\ UNCHANGED <<userInfoList, nextPtr, created>>
       ELSE /\ nextPtr + Len(Lines(fs[filename])) - 1 <= MaxUsers
            /\ \E st \in {readLoop(Lines(fs[filename]),
                             [list |-> userInfoList, nextPtr |-> nextPtr,
                              created |-> created, status |-> status, out |-> <<>>])} :
                   /\ userInfoList' = st.list
                   /\ nextPtr' = st.nextPtr
                   /\ created' = st.created
                   /\ status' = st.status
                   /\ out' = st.out
    /\ UNCHANGED <<erased, fs>>

\* What the prompts accept besides PromptRecords: getName takes any word, a
\* comma included, and the measurement prompts any number.
FilePromptRecords ==
    { Prompted("john", "male", 28, Body(815, 900, 400, 900, 1800), "sedentary"),
      Prompted("jack", "female", 45, Body(810, 750, 380, 905, 1800), "moderate"),
      Prompted("j,r", "male", 28, Body(810, 900, 400, 900, 1800), "active"),
      Prompted("jill", "female", 30, Body(1234567, 750, 380, 900, 1800), "active") }

\* What the files may hold when the program starts: lines this program wrote
\* and lines written by hand.
FileFileSystems ==
    { [f \in FileNames |-> IF f = "us_user_data.csv" THEN NoFile ELSE Unopenable],
      [f \in FileNames |-> IF f = "us_user_data.csv"
                            THEN <<"john,male,28,81,90,40,97.5,180,sedentary">>
                            ELSE <<>>],
      [f \in FileNames |-> IF f = "us_user_data.csv"
                            THEN <<"jack,male,30,81.5,90,40,,180,very,lazy">>
                            ELSE <<"john,other,28abc,81kg,90,40,,180,sedentary",
                                   "john,male,28">>],
      [f \in FileNames |-> IF f = "us_user_data.csv"
                            THEN <<"jack,male,,81.5,90,40,,180,active">>
                            ELSE <<"john,male,28,81,90,forty,,180,sedentary">>],
      [f \in FileNames |-> IF f = "us_user_data.csv"
                            THEN <<"">>
                            ELSE <<"john,male,28,81,90,40,,,sedentary">>] }

InitFile ==
    /\ userInfoList = <<>>
    /\ nextPtr = 1
    /\ created = <<>>
    /\ erased = {}
    /\ fs \in FileFileSystems
    /\ status = "running"
    /\ out = <<>>
    /\ last = [op |-> "init", arg |-> "", ret |-> 0]

NextFile ==
    \/ \E u \in FilePromptRecords : AddUserInfo(u)
    \/ \E f \in FileNames : Serialize(f)
    \/ \E f \in FileNames : ReadFromFile(f)
    \/ \E m \in Strategies : GetBfp(m, "john")
    \/ GetDailyCalories("john")
    \/ GetMealPrep("john")

SpecFile == InitFile /\ [][NextFile]_vars

(***************************************************************************)
(* class UserStats: the statistics over the two canonical files. Its       *)
(* records live in vectors of their own, never in the registry.            *)
(***************************************************************************)
\* enum class BfpType, line 44.
BfpTypes == {"BmiMethod", "USNavyMethod"}

\* What a call of UserStats::massLoadAndCompute has come to: the vector
\* built, what was printed, and the exception that ended it.
Loading == [threw |-> FALSE, what |-> "", list |-> <<>>, out |-> <<>>]

\* Lines 1532-1544 on the user decoded from a line: the results the strategy
\* of bfpType, getDailyCalories and getMealPrep may leave in it, with what
\* they printed.
statsCompute(bfpType, user) ==
    { [user |-> getMealPrep(getDailyCalories([user EXCEPT !.bfp = res.bfp]).user),
       out  |-> res.out \o getDailyCalories([user EXCEPT !.bfp = res.bfp]).out]
      : res \in (IF bfpType = "BmiMethod" THEN BmiMethod_getBfp(user)
                 ELSE IF bfpType = "USNavyMethod" THEN USNavyMethod_getBfp(user)
                 ELSE {[bfp |-> NoBfp, out |-> <<>>]}) }

\* The runs of the while loop of lines 1508-1547 over the lines left: a line
\* that does not decode ends the call with the exception.
RECURSIVE statsLoadLoop(_, _, _)
statsLoadLoop(bfpType, lines, st) ==
    IF lines = <<>> THEN {st}
    ELSE UNION {
           IF d.threw
           THEN {[st EXCEPT !.threw = TRUE, !.what = d.what]}
           ELSE UNION { statsLoadLoop(bfpType, Tail(lines), next)
                        : next \in { [st EXCEPT !.list = Append(@, c.user),
                                                 !.out = @ \o c.out]
                                     : c \in statsCompute(bfpType, d.user) } }
           : d \in {Decode(Head(lines))} }

\* UserStats::massLoadAndCompute, lines 1491-1551, on the file of that name.
UserStats_massLoadAndCompute(filename, bfpType) ==
    IF openToRead(fs[filename], filename).threw
    THEN {[Loading EXCEPT !.threw = TRUE,
                          !.what = openToRead(fs[filename], filename).what]}
    ELSE statsLoadLoop(bfpType, Lines(fs[filename]), Loading)

\* The names pushed by one range-for over the vector loaded: those of the
\* users of that gender whose category is, or is not, the label.
RECURSIVE NamesWhere(_, _, _, _)
NamesWhere(userStats, gender, label, equal) ==
    IF userStats = <<>> THEN <<>>
    ELSE LET user == Head(userStats)
             rest == NamesWhere(Tail(userStats), gender, label, equal)
         IN  IF user.gender = gender /\ ((user.bfp[2] = label) <=> equal)
             THEN <<user.name>> \o rest
             ELSE rest

\* What a filter returns or throws, and what it printed before.
Filtered(loaded, names) ==
    [threw |-> loaded.threw, what |-> loaded.what, out |-> loaded.out,
     names |-> IF loaded.threw THEN <<>> ELSE names]

\* A filter that forgets the gender: the slip C18 must tell from the code.
HealthyUsers_AnyGender(method, gender) ==
    IF method = "bmi" THEN
        { Filtered(l, NamesWhere(l.list, "male", "Bmi: Normal", TRUE)
                      \o NamesWhere(l.list, "female", "Bmi: Normal", TRUE))
            : l \in UserStats_massLoadAndCompute("bmi_user_data.csv", "BmiMethod") }
    ELSE IF method = "USArmy" THEN
        { Filtered(l, NamesWhere(l.list, "male", "USNavy: Normal", TRUE)
                      \o NamesWhere(l.list, "female", "USNavy: Normal", TRUE))
            : l \in UserStats_massLoadAndCompute("us_user_data.csv", "USNavyMethod") }
    ELSE {Filtered(Loading, <<>>)}

\* Lines 1899-1923: the vector healthyUsers of GetHealthyUsers.
HealthyUsers(method, gender) ==
    IF method = "bmi" THEN
        { Filtered(l, NamesWhere(l.list, gender, "Bmi: Normal", TRUE))
            : l \in UserStats_massLoadAndCompute("bmi_user_data.csv", "BmiMethod") }
    ELSE IF method = "USArmy" THEN
        { Filtered(l, NamesWhere(l.list, gender, "USNavy: Normal", TRUE))
            : l \in UserStats_massLoadAndCompute("us_user_data.csv", "USNavyMethod") }
    ELSE {Filtered(Loading, <<>>)}

\* A filter that passes over the records without a category: the slip C19
\* must tell from the code.
UnfitUsers_CategorisedOnly(method, gender) ==
    IF method = "bmi" THEN
        { Filtered(l, NamesWhere(SelectSeq(l.list, LAMBDA user : user.bfp[2] # ""),
                                 gender, "Bmi: Normal", FALSE))
            : l \in UserStats_massLoadAndCompute("bmi_user_data.csv", "BmiMethod") }
    ELSE IF method = "USArmy" THEN
        { Filtered(l, NamesWhere(SelectSeq(l.list, LAMBDA user : user.bfp[2] # ""),
                                 gender, "USNavy: Normal", FALSE))
            : l \in UserStats_massLoadAndCompute("us_user_data.csv", "USNavyMethod") }
    ELSE {Filtered(Loading, <<>>)}

\* Lines 1991-2015: the vector healthyUsers of GetUnfitUsers.
UnfitUsers(method, gender) ==
    IF method = "bmi" THEN
        { Filtered(l, NamesWhere(l.list, gender, "Bmi: Normal", FALSE))
            : l \in UserStats_massLoadAndCompute("bmi_user_data.csv", "BmiMethod") }
    ELSE IF method = "USArmy" THEN
        { Filtered(l, NamesWhere(l.list, gender, "USNavy: Normal", FALSE))
            : l \in UserStats_massLoadAndCompute("us_user_data.csv", "USNavyMethod") }
    ELSE {Filtered(Loading, <<>>)}

\* The end of a filter: the exception leaves the call, or the header and the
\* names are printed and the names returned.
Report(op, method, gender, header, r) ==
    /\ last' = [op |-> op, arg |-> <<method, gender>>, ret |-> r.names]
    /\ status' = IF r.threw THEN "threw" ELSE "running"
    /\ out' = IF r.threw THEN r.out \o <<r.what>>
              ELSE r.out \o <<header \o gender \o ", " \o method \o " method):">> \o r.names
    /\ UNCHANGED <<userInfoList, nextPtr, created, erased, fs>>

\* UserStats::GetHealthyUsers(method, gender), lines 1897-1931.
GetHealthyUsers(method, gender) ==
    /\ status = "running"
    /\ \E r \in HealthyUsers(method, gender) :
           Report("GetHealthyUsers", method, gender, "Healthy Users (", r)

\* UserStats::GetUnfitUsers(method, gender), lines 1989-2023.
GetUnfitUsers(method, gender) ==
    /\ status = "running"
    /\ \E r \in UnfitUsers(method, gender) :
           Report("GetUnfitUsers", method, gender, "Unfit Users (", r)

\* The names pushed by one range-for of the overloads without a gender.
RECURSIVE NamesOfCategory(_, _, _)
NamesOfCategory(userStats, label, equal) ==
    IF userStats = <<>> THEN <<>>
    ELSE IF (Head(userStats).bfp[2] = label) <=> equal
         THEN <<Head(userStats).name>> \o NamesOfCategory(Tail(userStats), label, equal)
         ELSE NamesOfCategory(Tail(userStats), label, equal)

\* Lines 1947-1965 and 2038-2056: both files are loaded whatever the method,
\* the bmi file first, each with its own strategy; equal is TRUE for the
\* healthy users and FALSE for the unfit ones. method is not read.
AllUsers(method, equal) ==
    UNION {
        IF bmi.threw THEN {Filtered(bmi, <<>>)}
        ELSE { IF us.threw
               THEN [threw |-> TRUE, what |-> us.what, out |-> bmi.out \o us.out,
                     names |-> <<>>]
               ELSE [threw |-> FALSE, what |-> "", out |-> bmi.out \o us.out,
                     names |-> NamesOfCategory(bmi.list, "Bmi: Normal", equal)
                                 \o NamesOfCategory(us.list, "USNavy: Normal", equal)]
               : us \in UserStats_massLoadAndCompute("us_user_data.csv", "USNavyMethod") }
        : bmi \in UserStats_massLoadAndCompute("bmi_user_data.csv", "BmiMethod") }

\* The end of an overload without a gender.
ReportAll(op, method, header, r) ==
    /\ last' = [op |-> op, arg |-> <<method>>, ret |-> r.names]
    /\ status' = IF r.threw THEN "threw" ELSE "running"
    /\ out' = IF r.threw THEN r.out \o <<r.what>> ELSE r.out \o <<header>> \o r.names
    /\ UNCHANGED <<userInfoList, nextPtr, created, erased, fs>>

\* UserStats::GetHealthyUsers(method), lines 1945-1974.
GetHealthyUsers_method(method) ==
    /\ status = "running"
    /\ \E r \in AllUsers(method, TRUE) :
           ReportAll("GetHealthyUsers(method)", method, "All Healthy Users ", r)

\* UserStats::GetUnfitUsers(method), lines 2036-2065.
GetUnfitUsers_method(method) ==
    /\ status = "running"
    /\ \E r \in AllUsers(method, FALSE) :
           ReportAll("GetUnfitUsers(method)", method, "All Unfit Users ", r)

\* The number of users of a vector with that gender, any gender for "", and
\* that category, any category for "".
HowMany(userStats, gender, category) ==
    Cardinality({i \in 1..Len(userStats) :
                    /\ gender = "" \/ userStats[i].gender = gender
                    /\ category = "" \/ userStats[i].bfp[2] = category})

\* The quotient of two naturals; a division by 0 is undefined behaviour, and
\* 0 stands for whatever it leaves when it does not trap.
Quot(a, b) == IF b = 0 THEN 0 ELSE a \div b

\* Lines 2084-2158 of GetFullStats: the counters after the two loops and the
\* numbers printed. The sizes are size_t and the counters are not negative,
\* so every division is a division of naturals.
FullStats(bmiUserStats, usUserStats) ==
    LET totalUsers == Len(bmiUserStats) + Len(usUserStats)
        maleCount == HowMany(bmiUserStats, "male", "") + HowMany(usUserStats, "male", "")
        femaleCount == HowMany(bmiUserStats, "female", "") + HowMany(usUserStats, "female", "")
    IN  [totalUsers |-> totalUsers,
         bmiSize |-> Len(bmiUserStats),
         usSize |-> Len(usUserStats),
         male |-> Quot(maleCount * 100, totalUsers),
         female |-> Quot(femaleCount * 100, totalUsers),
         healthyBmi |-> Quot(HowMany(bmiUserStats, "", "Bmi: Normal") * 100, Len(bmiUserStats)),
         healthyBmiMale |-> Quot(HowMany(bmiUserStats, "male", "Bmi: Normal") * 100, Len(bmiUserStats)),
         healthyBmiFemale |-> Quot(HowMany(bmiUserStats, "female", "Bmi: Normal") * 100, Len(bmiUserStats)),
         healthyUs |-> Quot(HowMany(usUserStats, "", "Bmi: Normal") * 100, Len(usUserStats)),
         healthyUsMale |-> Quot(HowMany(usUserStats, "male", "Bmi: Normal") * 100, Len(usUserStats)),
         healthyUsFemale |-> Quot(HowMany(usUserStats, "female", "Bmi: Normal") * 100, Len(usUserStats))]

\* Lines 2153-2158: the six lines printed.
FullStatsLines(s) ==
    << "total users: " \o ToString(s.totalUsers),
       "male/female percentage: " \o ToString(s.male) \o "% / " \o ToString(s.female) \o "%",
       "healty bmi: " \o ToString(s.healthyBmi) \o "%",
       "healty bmi male/female: " \o ToString(s.healthyBmiMale) \o "% / "
            \o ToString(s.healthyBmiFemale) \o "%",
       "healty us: " \o ToString(s.healthyUs) \o "%",
       "healty us male/female: " \o ToString(s.healthyUsMale) \o "% / "
            \o ToString(s.healthyUsFemale) \o "%" >>

\* UserStats::GetFullStats, lines 2080-2159: both files are loaded with
\* BfpType::BmiMethod, the bmi file first. Nothing tests a size before the
\* divisions of lines 2154-2158: with an empty vector the build of the
\* Makefile traps on the division; the other outcome is a call that returns.
GetFullStats ==
    /\ status = "running"
    /\ \E bmi \in UserStats_massLoadAndCompute("bmi_user_data.csv", "BmiMethod") :
          IF bmi.threw
          THEN /\ status' = "threw"
               /\ out' = bmi.out \o <<bmi.what>>
               /\ last' = [op |-> "GetFullStats", arg |-> "", ret |-> 0]
          ELSE \E us \in UserStats_massLoadAndCompute("us_user_data.csv", "BmiMethod") :
                  IF us.threw
                  THEN /\ status' = "threw"
                       /\ out' = bmi.out \o us.out \o <<us.what>>
                       /\ last' = [op |-> "GetFullStats", arg |-> "", ret |-> 0]
                  ELSE /\ IF bmi.list = <<>> \/ us.list = <<>>
                          THEN status' \in {"crashed", "running"}
                          ELSE status' = "running"
                       /\ out' = bmi.out \o us.out
                                   \o FullStatsLines(FullStats(bmi.list, us.list))
                       /\ last' = [op |-> "GetFullStats", arg |-> "",
                                   ret |-> FullStats(bmi.list, us.list)]
    /\ UNCHANGED <<userInfoList, nextPtr, created, erased, fs>>

\* The methods and genders the filters are called with: the two the code
\* knows, and one it does not.
StatsMethods == {"bmi", "USArmy", "all"}
StatsGenders == {"male", "female", "other"}

\* What a canonical file may hold when the statistics run.
StatsFile(i) ==
    CASE i = 1 -> NoFile
      [] i = 2 -> Unopenable
      [] i = 3 -> <<>>
      [] i = 4 -> <<"john,male,28,81,90,40,,180,sedentary",
                    "jill,female,28,60,87.5,35,85,180,moderate",
                    "john,male,28,72.5,75,38,,172.5,moderate">>
      [] i = 5 -> <<"jack,male,28,60,87.5,35,,180,active",
                    "jane,female,28,68,80,40,115,165,active",
                    "joe,male,18,72.5,75,38,,172.5,lazy">>
      [] i = 6 -> <<"sam,other,28,72.5,75,38,,172.5,active",
                    "jack,male,28,60,87.5,35,,180,active">>
      [] i = 7 -> <<"john,male,28,81,90,40,,180,sedentary",
                    "jack,male,,60,87.5,35,,180,active">>
      [] i = 8 -> <<"jane,female,28,68,80,40,115,165,active">>
      [] OTHER -> Directory

StatsFileSystem(i, j) ==
    [f \in FileNames |-> IF f = "us_user_data.csv" THEN StatsFile(i) ELSE StatsFile(j)]

InitStats ==
    /\ userInfoList = <<>>
    /\ nextPtr = 1
    /\ created = <<>>
    /\ erased = {}
    /\ \E i \in 1..9, j \in 1..9 : fs = StatsFileSystem(i, j)
    /\ status = "running"
    /\ out = <<>>
    /\ last = [op |-> "init", arg |-> "", ret |-> 0]

\* main, lines 251-275: the loads into the registry, then the statistics.
NextStats ==
    \/ \E f \in FileNames : ReadFromFile(f)
    \/ \E m \in Strategies, f \in FileNames : MassLoadAndCompute(m, f)
    \/ \E m \in StatsMethods, g \in StatsGenders : GetHealthyUsers(m, g)
    \/ \E m \in StatsMethods, g \in StatsGenders : GetUnfitUsers(m, g)
    \/ \E m \in StatsMethods : GetHealthyUsers_method(m)
    \/ \E m \in StatsMethods : GetUnfitUsers_method(m)
    \/ GetFullStats

SpecStats == InitStats /\ [][NextStats]_vars

(***************************************************************************)
(* The names of the records: what the name prompt stores, next to what a   *)
(* line of a file gives.                                                   *)
(***************************************************************************)
UpperCase == "ABCDEFGHIJKLMNOPQRSTUVWXYZ"
LowerCase == "abcdefghijklmnopqrstuvwxyz"

\* std::tolower in the "C" locale.
tolower(c) ==
    IF IndexOf(UpperCase, c, 1) # 0
    THEN SubSeq(LowerCase, IndexOf(UpperCase, c, 1), IndexOf(UpperCase, c, 1))
    ELSE c

\* toLower, lines 1100-1107.
RECURSIVE toLower(_)
toLower(input) ==
    IF input = "" THEN "" ELSE tolower(Head(input)) \o toLower(Tail(input))

\* The second loop of trim: end steps back over blanks, not past start.
RECURSIVE trimEnd(_)
trimEnd(str) ==
    IF Len(str) > 1 /\ SubSeq(str, Len(str), Len(str)) = " "
    THEN trimEnd(SubSeq(str, 1, Len(str) - 1))
    ELSE str

\* trim, lines 1076-1092, of a string that is not empty.
trim(str) == IF SkipSpace(str) = "" THEN "" ELSE trimEnd(SkipSpace(str))

\* UserInfoManager::getName, lines 1384-1392, on the word std::cin >> input
\* read.
getName(input) == toLower(trim(input))

\* HealthAssistant::getUserDetails, lines 310-313: the prompts, the name
\* prompt answered with input and the others as in u.
GetUserDetails(input, u) == AddUserInfo([u EXCEPT !.name = getName(input)])

\* The words typed at the name prompt.
NameInputs == {"John", "JILL", "jack"}

\* Files written by this program, and files written by hand.
NameFileSystems ==
    { [f \in FileNames |-> IF f = "us_user_data.csv"
                            THEN <<"john,male,28,81,90,40,,180,sedentary">>
                            ELSE NoFile],
      [f \in FileNames |-> IF f = "us_user_data.csv"
                            THEN <<"John,male,28,81,90,40,,180,sedentary">>
                            ELSE <<" jill,female,45,81,75,38,90,180,moderate", "jack,male,28,81,90,40,,180,active">>] }

InitNames ==
    /\ userInfoList = <<>>
    /\ nextPtr = 1
    /\ created = <<>>
    /\ erased = {}
    /\ fs \in NameFileSystems
    /\ status = "running"
    /\ out = <<>>
    /\ last = [op |-> "init", arg |-> "", ret |-> 0]

NextNames ==
    \/ \E input \in NameInputs, u \in PromptRecords : GetUserDetails(input, u)
    \/ \E f \in FileNames : ReadFromFile(f)
    \/ \E m \in Strategies, f \in FileNames : MassLoadAndCompute(m, f)
    \/ \E n \in CallNames : GetUserInfo(n)

SpecNames == InitNames /\ [][NextNames]_vars

(***************************************************************************)
(* The strategy objects and the registry they share. HealthAssistant has   *)
(* one data member, the static userInfoManager (lines 131, 138), so an     *)
(* object is told from another by its class alone; method is the class of  *)
(* the object a call is made through.                                      *)
(***************************************************************************)
\* center, lines 322-335.
Blanks(n) ==
    SubSeq("                                                            ", 1, n)

center(input, width) ==
    IF width < Len(input) THEN input
    ELSE Blanks((width - Len(input)) \div 2) \o input
            \o Blanks((width - Len(input)) - (width - Len(input)) \div 2)

\* double_to_string(input, 2), lines 343-348, of a number of hundredths.
Fixed2(hundredths) ==
    (IF hundredths < 0 THEN "-" ELSE "") \o ToString(Abs(hundredths) \div 100) \o "."
        \o ToString((Abs(hundredths) % 100) \div 10) \o ToString(Abs(hundredths) % 10)

\* The same of a whole number.
FixedWhole(n) == ToString(n) \o ".00"

\* The same of a number of grams in 1/3600: rounded to the nearest hundredth
\* (no macro of the model lies halfway).
FixedGrams(g) == Fixed2((g + 18) \div 36)

\* UserInfoManager::displayUser, lines 358-398: the lines printed, width 60
\* and precision 2. The hip is printed for a woman only.
displayUser(userInfo) ==
    << center("--- USER PROFILE SUMMARY ---", 60), "",
       center("Personal Details:", 60),
       center("Name: " \o userInfo.name, 60),
       center("Gender: " \o userInfo.gender, 60),
       center("Age (years): " \o ToString(userInfo.age), 60),
       center("Height (cm): " \o Fixed2(userInfo.height * 10), 60) >>
    \o (IF userInfo.gender = "female"
        THEN <<center("Hip (cm): " \o Fixed2(userInfo.hip * 10), 60)>>
        ELSE <<>>)
    \o << "", center("Body Measurements:", 60),
          center("Weight (kg): " \o Fixed2(userInfo.weight * 10), 60),
          center("Waist (cm): " \o Fixed2(userInfo.waist * 10), 60),
          center("Neck (cm): " \o Fixed2(userInfo.neck * 10), 60),
          "", center("Lifestyle:", 60),
          center("Activity Level: " \o userInfo.lifestyle, 60),
          "", center("Health Metrics:", 60),
          center("Body Fat Percentage: " \o FixedWhole(userInfo.bfp[1]) \o "% ("
                    \o userInfo.bfp[2] \o ")", 60),
          center("Daily Caloric Intake (calories): "
                    \o FixedWhole(userInfo.daily_calories), 60),
          "", center("Macronutrient Breakdown (grams):", 60),
          center("Carbs: " \o FixedGrams(userInfo.carbs) \o "g", 60),
          center("Protein: " \o FixedGrams(userInfo.protein) \o "g", 60),
          center("Fat: " \o FixedGrams(userInfo.fat) \o "g", 60),
          "" >>

\* UserInfoManager::displayAll, lines 496-503: the loop over the list.
RECURSIVE displayEach(_)
displayEach(list) ==
    IF list = <<>> THEN <<>> ELSE displayUser(Head(list)) \o displayEach(Tail(list))

\* A display that shows an object the records it loaded itself and those the
\* prompts gave, as if each object had a registry of its own: the slip C26
\* must tell from the code.
display_OwnRecords(method, list, username) ==
    LET own == SelectSeq(list, LAMBDA u : created[u.ptr].via \in {method, "prompt"})
    IN  IF username = "all"
        THEN <<center("--- BEGIN ALL USER ---", 60), "">> \o displayEach(own)
                \o <<center("--- END ALL USER ---", 60), "">>
        ELSE IF own = <<>> THEN <<MsgNoUserInList>>
        ELSE IF FirstNamed(own, username, 1) = 0 THEN <<MsgUserNotFound>>
        ELSE displayUser(own[FirstNamed(own, username, 1)])

\* HealthAssistant::display, lines 479-489, with UserInfoManager::displayAll
\* and UserInfoManager::display, lines 434-452: what is printed of the static
\* registry, through an object of class method.
display(method, list, username) ==
    IF username = "all"
    THEN <<center("--- BEGIN ALL USER ---", 60), "">> \o displayEach(list)
            \o <<center("--- END ALL USER ---", 60), "">>
    ELSE IF list = <<>> THEN <<MsgNoUserInList>>
    ELSE IF FirstNamed(list, username, 1) = 0 THEN <<MsgUserNotFound>>
    ELSE displayUser(list[FirstNamed(list, username, 1)])

Display(method, username) ==
    /\ status = "running"
    /\ out' = display(method, userInfoList, username)
    /\ last' = [op |-> "display", arg |-> <<method, username>>, ret |-> 0]
    /\ UNCHANGED <<userInfoList, nextPtr, created, erased, fs, status>>

\* delete ha, lines 222, 249, 255 and 260 of main: the destructor of line 120
\* is empty and the static registry is no part of the object.
DeleteAssistant(method) ==
    /\ status = "running"
    /\ out' = <<>>
    /\ last' = [op |-> "delete ha", arg |-> method, ret |-> 0]
    /\ UNCHANGED <<userInfoList, nextPtr, created, erased, fs, status>>

\* main, lines 196-260: objects of both classes are made, used and deleted
\* in turn.
NextShared ==
    \/ \E u \in {r \in PromptRecords : r.name = "john"} : AddUserInfo(u)
    \/ \E m \in Strategies, f \in FileNames : MassLoadAndCompute(m, f)
    \/ \E m \in Strategies : GetBfp(m, "john")
    \/ GetDailyCalories("john")
    \/ DeleteUser("john")
    \/ \E m \in Strategies, n \in {"all", "john"} : Display(m, n)
    \/ \E m \in Strategies : DeleteAssistant(m)

SpecShared == Init /\ [][NextShared]_vars

(***************************************************************************)
(* Reloading: the registry is filled by the prompts, written to a file and *)
(* loaded again through readFromFile and through massLoadAndCompute.       *)
(***************************************************************************)
ReloadPromptRecords ==
    { Prompted("john", "male", 28, Body(815, 900, 400, 900, 1800), "sedentary"),
      Prompted("jill", "female", 30, Body(810, 1234567, 380, 900, 1800), "active") }

\* What the files may hold when the program starts.
ReloadFileSystems ==
    { [f \in FileNames |-> IF f = "us_user_data.csv" THEN NoFile ELSE <<>>],
      [f \in FileNames |-> IF f = "us_user_data.csv"
                            THEN <<"john,male,28,81,90,40,,180,sedentary", "">>
                            ELSE <<"jill,female,45,81,75,38,90,180,moderate",
                                   "jack,male,28,81,ninety,40,,180,active",
                                   "john,male,28,81,90,40,,180,sedentary">>],
      [f \in FileNames |-> IF f = "us_user_data.csv"
                            THEN NoFile
                            ELSE <<"jack,male,28,81,90,40,97.5,180,active",
                                   "john,female,45,81,75,38,90,180,moderate">>] }

InitReload ==
    /\ userInfoList = <<>>
    /\ nextPtr = 1
    /\ created = <<>>
    /\ erased = {}
    /\ fs \in ReloadFileSystems
    /\ status = "running"
    /\ out = <<>>
    /\ last = [op |-> "init", arg |-> "", ret |-> 0]

\* main, lines 196-260: the calls that fill, write and reload the registry.
NextReload ==
    \/ \E u \in ReloadPromptRecords : AddUserInfo(u)
    \/ \E f \in FileNames : Serialize(f)
    \/ \E f \in FileNames : ReadFromFile(f)
    \/ \E f \in FileNames : MassLoadAndCompute("BmiMethod", f)
    \/ DeleteUser("john")

SpecReload == InitReload /\ [][NextReload]_vars

(***************************************************************************)
(* The claims.                                                             *)
(***************************************************************************)
\* The addresses of the records that were added to the registry.
Added == {p \in 1..Len(created) : created[p].via # "leaked"}

\* The places of the records called username.
Named(list, username) == {i \in 1..Len(list) : list[i].name = username}

Min(S) == CHOOSE x \in S : \A y \in S : x <= y

ByNameOps == Strategies \cup {"getDailyCalories", "getMealPrep"}

\* C1: enumerating the registry yields exactly the records added and not yet
\* deleted, each with the input fields it was added with, in the order they
\* were added; an add appends at the end and makes the registry one longer,
\* whether or not the name is already present.
C1_EnumerateInOrder ==
    /\ [](/\ Ptrs(userInfoList) = Added \ erased
          /\ Len(userInfoList) = Cardinality(Added \ erased)
          /\ \A i, j \in 1..Len(userInfoList) :
                i < j => userInfoList[i].ptr < userInfoList[j].ptr
          /\ \A i \in 1..Len(userInfoList) :
                SameInputs(userInfoList[i], created[userInfoList[i].ptr].rec))
    /\ [][last'.op = "addUserInfo" /\ last'.ret = nextPtr =>
            /\ Len(userInfoList') = Len(userInfoList) + 1
            /\ SubSeq(userInfoList', 1, Len(userInfoList)) = userInfoList
            /\ userInfoList'[Len(userInfoList')].ptr = last'.ret
            /\ userInfoList'[Len(userInfoList')].name = last'.arg]_vars

\* C1's case: a record was added under a name already present, and another
\* was deleted.
C1_Witness ==
    /\ last.op = "addUserInfo"
    /\ erased # {}
    /\ Cardinality(Named(userInfoList, last.arg)) >= 2

\* C2: deleteUser(name) removes the first record of that name and no other,
\* leaving the rest unmodified and in order; without a record of that name
\* the registry is unchanged; no error either way.
C2_DeleteFirstMatch ==
    [][last'.op = "deleteUser" /\ status = "running" =>
        LET hits == Named(userInfoList, last'.arg)
        IN  /\ status' = "running"
            /\ IF hits = {} THEN userInfoList' = userInfoList
               ELSE /\ Len(userInfoList') = Len(userInfoList) - 1
                    /\ \A i \in 1..Len(userInfoList') :
                          userInfoList'[i] = userInfoList[IF i < Min(hits) THEN i ELSE i + 1]]_vars

\* C2's case: a record was deleted and a later record of the same name stays.
C2_Witness ==
    /\ last.op = "deleteUser"
    /\ \E p \in erased : created[p].rec.name = last.arg
    /\ Named(userInfoList, last.arg) # {}
    /\ Len(userInfoList) >= 2

\* C3: getUserInfo(name) returns the first record of that name in insertion
\* order, nullptr exactly when there is none (the empty registry included),
\* and modifies nothing; after deleteUser(name), with a record of that name
\* left, it returns that later record.
C3_FindFirstMatch ==
    /\ [](last.op = "getUserInfo" =>
            LET hits == Named(userInfoList, last.arg)
            IN  IF hits = {} THEN last.ret = 0
                ELSE /\ last.ret = userInfoList[Min(hits)].ptr
                     /\ \A i \in hits : last.ret <= userInfoList[i].ptr)
    /\ [][last'.op = "getUserInfo" =>
            /\ userInfoList' = userInfoList
            /\ status' = status
            /\ (last.op = "deleteUser" /\ last.arg = last'.arg /\ last'.ret # 0 =>
                  \A p \in erased : created[p].rec.name = last'.arg => p < last'.ret)]_vars

\* C3's case: a find right after a delete of the same name returned the later
\* duplicate.
C3_Witness ==
    /\ last.op = "getUserInfo"
    /\ last.ret # 0
    /\ \E p \in erased : created[p].rec.name = last.arg /\ p < last.ret
    /\ \E i \in 1..Len(userInfoList) :
          userInfoList[i].name # last.arg /\ userInfoList[i].ptr < last.ret

\* C4: a by-name computation for a name that is not in the registry reports
\* the condition, modifies no record, returns normally, and execution goes on.
C4_NotFoundRecoverable ==
    [][last'.op \in ByNameOps /\ status = "running"
         /\ Named(userInfoList, last'.arg) = {} =>
            /\ out' \in {<<MsgNoUserInList>>, <<MsgUserNotFound>>}
            /\ userInfoList' = userInfoList
            /\ status' = "running"]_vars

\* The integer part of a number of thousandths, truncated toward zero.
Trunc(milli) == IF milli >= 0 THEN milli \div 1000 ELSE 0 - ((0 - milli) \div 1000)

\* The cutoffs of CircumferenceMethod, in percent, by gender and age band.
Band(age) == IF age <= 39 THEN 1 ELSE IF age <= 59 THEN 2 ELSE 3

Cutoffs ==
    [female |-> << <<21, 33, 39>>, <<23, 34, 40>>, <<24, 36, 42>> >>,
     male   |-> << <<8, 20, 25>>,  <<11, 22, 28>>, <<13, 25, 30>> >>]

NavyCategory(gender, age, milli) ==
    LET c == Cutoffs[gender][Band(age)]
    IN  IF milli < c[1] * 1000 THEN "USNavy: Low"
        ELSE IF milli < c[2] * 1000 THEN "USNavy: Normal"
        ELSE IF milli < c[3] * 1000 THEN "USNavy: High"
        ELSE "USNavy: Very High"

\* C5: for every record with gender male or female and age in 20..79,
\* CircumferenceMethod stores the category the gender's and age band's cutoffs
\* give the untruncated BFP, and as the value the integer part of the BFP
\* truncated toward zero.
C5_CutoffsAndTruncation ==
    [][last'.op = "USNavyMethod" /\ Named(userInfoList, last'.arg) # {} =>
        LET i   == Min(Named(userInfoList, last'.arg))
            u   == userInfoList[i]
            bfp == USNavyLocals(u).bfp
        IN  u.gender \in {"male", "female"} /\ u.age \in 20..79 =>
                /\ ~bfp.nan
                /\ userInfoList'[i].bfp =
                       <<Trunc(bfp.milli), NavyCategory(u.gender, u.age, bfp.milli)>>]_vars

\* C6: on a record whose age is outside 20..79 or whose gender is neither male
\* nor female, CircumferenceMethod stores an empty category, reports the
\* condition and returns normally; with a recognised gender the value stored
\* is the truncated result of the gender's formula.
C6_OutOfRangeReported ==
    [][last'.op = "USNavyMethod" /\ Named(userInfoList, last'.arg) # {} =>
        LET i   == Min(Named(userInfoList, last'.arg))
            u   == userInfoList[i]
            bfp == USNavyLocals(u).bfp
        IN  u.gender \notin {"male", "female"} \/ u.age \notin 20..79 =>
                /\ userInfoList'[i].bfp[2] = ""
                /\ out' # <<>>
                /\ status' = "running"
                /\ (u.gender \in {"male", "female"} /\ ~bfp.nan =>
                        userInfoList'[i].bfp[1] = Trunc(bfp.milli))]_vars

BmiCategories == {"Bmi: Low", "Bmi: Normal", "Bmi: High", "Bmi: Very High"}

\* weight * 10000 / height^2 for a weight in tenths of a kilogram and a height
\* in tenths of a centimetre, compared without rounding.
RatioValue(u) == (u.weight * 100000) \div (u.height * u.height)

RatioCategory(u) ==
    LET h2 == u.height * u.height
    IN  IF u.weight * 1000000 < 185 * h2 THEN "Bmi: Low"
        ELSE IF u.weight * 100000 < 25 * h2 THEN "Bmi: Normal"
        ELSE IF u.weight * 100000 < 30 * h2 THEN "Bmi: High"
        ELSE "Bmi: Very High"

\* C7: the pair RatioMethod stores is the integer part of weight*10000/height^2
\* with the category of the untruncated ratio (below 18.5 Low, below 25 Normal,
\* below 30 High, else Very High), so two records with the same weight and
\* height get the same pair whatever their gender, age, hip or other fields.
C7_RatioOfWeightAndHeight ==
    /\ \A i \in 1..Len(userInfoList) :
          userInfoList[i].bfp[2] \in BmiCategories =>
              userInfoList[i].bfp = <<RatioValue(userInfoList[i]), RatioCategory(userInfoList[i])>>
    /\ \A i, j \in 1..Len(userInfoList) :
          /\ userInfoList[i].bfp[2] \in BmiCategories
          /\ userInfoList[j].bfp[2] \in BmiCategories
          /\ userInfoList[i].weight = userInfoList[j].weight
          /\ userInfoList[i].height = userInfoList[j].height
          => userInfoList[i].bfp = userInfoList[j].bfp

\* C7's case: RatioMethod has run on two records of the same weight and height
\* that differ in gender, age, waist, neck, hip and lifestyle.
C7_Witness ==
    /\ Len(userInfoList) = 2
    /\ userInfoList[1].bfp[2] \in BmiCategories
    /\ userInfoList[2].bfp[2] \in BmiCategories
    /\ userInfoList[1].weight = userInfoList[2].weight
    /\ userInfoList[1].height = userInfoList[2].height
    /\ userInfoList[1].gender = "female" /\ userInfoList[2].gender # "female"
    /\ userInfoList[1].age # userInfoList[2].age
    /\ userInfoList[1].hip # userInfoList[2].hip
    /\ userInfoList[1].bfp[1] = 24

\* C8: computing BFP by name and computing it directly on the record, as the
\* bulk loader does, store the same pair in records with the same input
\* fields; the by-name call changes only the bfp field of the first record of
\* that name.
C8_ByNameSameAsDirect ==
    [][last'.op \in Strategies /\ Named(userInfoList, last'.arg) # {} =>
        LET i == Min(Named(userInfoList, last'.arg))
        IN  /\ \A p \in 1..Len(created) :
                  /\ created[p].via = last'.op
                  /\ SameInputs(created[p].rec, userInfoList[i])
                  => userInfoList'[i].bfp = created[p].rec.bfp
            /\ userInfoList' = [userInfoList EXCEPT ![i].bfp = userInfoList'[i].bfp]]_vars

\* The table of dailyCalories by gender, age band and lifestyle.
CalorieBand(age) == IF age <= 30 THEN 1 ELSE IF age <= 50 THEN 2 ELSE 3

CalorieTable ==
    [male   |-> << [sedentary |-> 2400, moderate |-> 2800, active |-> 3000],
                   [sedentary |-> 2200, moderate |-> 2600, active |-> 3000],
                   [sedentary |-> 2000, moderate |-> 2400, active |-> 2800] >>,
     female |-> << [sedentary |-> 2000, moderate |-> 2200, active |-> 2400],
                   [sedentary |-> 1800, moderate |-> 2000, active |-> 2200],
                   [sedentary |-> 1600, moderate |-> 1800, active |-> 2200] >>]

\* C9: for gender male or female, every age from 19 on and lifestyle
\* sedentary, moderate or active, dailyCalories stores the table value of the
\* one age band (19-30, 31-50, over 50) the age lies in.
C9_CalorieTable ==
    [][last'.op = "getDailyCalories" /\ Named(userInfoList, last'.arg) # {} =>
        LET i == Min(Named(userInfoList, last'.arg))
            u == userInfoList[i]
        IN  /\ u.gender \in {"male", "female"}
            /\ u.age >= 19
            /\ u.lifestyle \in {"sedentary", "moderate", "active"}
            => userInfoList'[i].daily_calories =
                   CalorieTable[u.gender][CalorieBand(u.age)][u.lifestyle]]_vars

\* C9's case: an age on the edge of a band got that band's value.
C9_Witness ==
    /\ last.op = "getDailyCalories"
    /\ Len(userInfoList) = 1
    /\ userInfoList[1].name = last.arg
    /\ userInfoList[1].gender = "female"
    /\ userInfoList[1].age = 31
    /\ userInfoList[1].lifestyle = "active"
    /\ userInfoList[1].daily_calories = 2200

\* C10: dailyCalories stores 0 and reports when the gender is neither male nor
\* female; it stores 0 without a report when the gender is recognised and the
\* age is below 19 or the lifestyle is none of sedentary, moderate, active; it
\* reports in no other case, and changes no field but daily_calories.
C10_ZeroCases ==
    [][last'.op = "getDailyCalories" /\ Named(userInfoList, last'.arg) # {} =>
        LET i == Min(Named(userInfoList, last'.arg))
            u == userInfoList[i]
            known == u.gender \in {"male", "female"}
        IN  /\ ~known => userInfoList'[i].daily_calories = 0 /\ out' = <<MsgCalories>>
            /\ known /\ (u.age < 19 \/ u.lifestyle \notin {"sedentary", "moderate", "active"})
                  => userInfoList'[i].daily_calories = 0 /\ out' = <<>>
            /\ known => out' = <<>>
            /\ userInfoList' =
                   [userInfoList EXCEPT ![i].daily_calories = userInfoList'[i].daily_calories]
            /\ status' = "running"]_vars

\* C10's case: the advisor has run on an active man of 18 and stored 0 without
\* a report.
C10_Witness ==
    /\ last.op = "getDailyCalories"
    /\ Len(userInfoList) = 1
    /\ userInfoList[1].name = last.arg
    /\ userInfoList[1].gender = "male"
    /\ userInfoList[1].age = 18
    /\ userInfoList[1].lifestyle = "active"
    /\ userInfoList[1].daily_calories = 0
    /\ out = <<>>

\* C11: macroSplit is a function of daily_calories alone and always succeeds:
\* carbs = 0.50*cal/4, protein = 0.30*cal/4, fat = 0.20*cal/9 grams, so
\* 4*carbs + 4*protein + 9*fat = cal, and 2000 gives 250, 150 and 400/9.
\* The macronutrients are kept in 1/3600 gram.
C11_MacroSplit ==
    [][last'.op = "getMealPrep" /\ Named(userInfoList, last'.arg) # {} =>
        LET i   == Min(Named(userInfoList, last'.arg))
            cal == userInfoList[i].daily_calories
            v   == userInfoList'[i]
        IN  /\ 8 * v.carbs = cal * 3600
            /\ 40 * v.protein = 3 * cal * 3600
            /\ 45 * v.fat = cal * 3600
            /\ 4 * v.carbs + 4 * v.protein + 9 * v.fat = cal * 3600
            /\ (cal = 2000 => /\ v.carbs = 250 * 3600
                              /\ v.protein = 150 * 3600
                              /\ 9 * v.fat = 400 * 3600)
            /\ userInfoList' = [userInfoList EXCEPT ![i].carbs = v.carbs,
                                                    ![i].protein = v.protein,
                                                    ![i].fat = v.fat]
            /\ status' = "running"
            /\ out' = <<>>]_vars

\* C11's case: the split of 2000 calories has been stored.
C11_Witness ==
    /\ last.op = "getMealPrep"
    /\ Len(userInfoList) = 1
    /\ userInfoList[1].name = last.arg
    /\ userInfoList[1].daily_calories = 2000
    /\ userInfoList[1].carbs = 250 * 3600
    /\ userInfoList[1].fat = 160000

\* The tokens between the commas of a line.
RECURSIVE Split(_)
Split(line) ==
    LET k == IndexOf(line, ",", 1)
    IN  IF k = 0 THEN <<line>>
        ELSE <<SubSeq(line, 1, k - 1)>> \o Split(SubSeq(line, k + 1, Len(line)))

\* The tokens joined by commas.
RECURSIVE Join(_)
Join(tokens) ==
    IF Len(tokens) = 1 THEN tokens[1]
    ELSE tokens[1] \o "," \o Join(Tail(tokens))

NoComma(str) == IndexOf(str, ",", 1) = 0

\* The nine fields of a record as they are persisted: no bfp, no calories, no
\* macronutrients.
Fields(u) ==
    <<u.name, u.gender, ToString(u.age), StreamDouble(u.weight), StreamDouble(u.waist),
      StreamDouble(u.neck),
      IF u.gender = "female"
      THEN ToString(u.hip \div 10) \o "." \o ToString(u.hip % 10)
      ELSE "",
      StreamDouble(u.height), u.lifestyle>>

\* The lines a serialize step added to its target.
AddedLines(old, new) == SubSeq(Content(new), Len(Content(old)) + 1, Len(Content(new)))

IsPrefix(s, t) == Len(s) <= Len(t) /\ SubSeq(t, 1, Len(s)) = s

\* C13 as stated: every serialize call leaves the target's previous content
\* as a prefix of the new content, adds exactly one line per record of the
\* registry at the end, and never modifies the registry.
C13_AppendOnly ==
    [][last'.op = "serialize" =>
        /\ IsPrefix(Content(fs[last'.arg]), Content(fs'[last'.arg]))
        /\ Len(Content(fs'[last'.arg])) = Len(Content(fs[last'.arg])) + Len(userInfoList)
        /\ userInfoList' = userInfoList]_vars

\* C13 as amended: no step ever changes or removes a line a file holds; a
\* serialize call whose target can be opened adds exactly one line per record
\* of the registry at its end and touches no other file, so serializing the
\* same registry twice leaves every line twice; a call whose target cannot be
\* opened reports it and writes nothing; serialize never modifies the registry.
C13_AppendOnlyWhenOpened ==
    /\ [][\A f \in FileNames : IsPrefix(Content(fs[f]), Content(fs'[f]))]_vars
    /\ [][last'.op = "serialize" =>
            /\ \A f \in FileNames \ {last'.arg} : fs'[f] = fs[f]
            /\ IF fs[last'.arg] = Unopenable
               THEN fs'[last'.arg] = Unopenable /\ out' = <<ErrOpening \o last'.arg>>
               ELSE /\ Len(Content(fs'[last'.arg]))
                          = Len(Content(fs[last'.arg])) + Len(userInfoList)
                    /\ fs'[last'.arg] # NoFile
                    /\ out' = <<>>
            /\ (last.op = "serialize" /\ last.arg = last'.arg /\ fs[last'.arg] # Unopenable =>
                    \A k \in 1..Len(userInfoList) :
                        Content(fs'[last'.arg])[Len(Content(fs'[last'.arg])) - Len(userInfoList) + k]
                          = Content(fs[last'.arg])[Len(Content(fs[last'.arg])) - Len(userInfoList) + k])
            /\ userInfoList' = userInfoList
            /\ status' = status]_vars

\* C13's case: the same registry has been serialized twice to one target.
C13_Witness ==
    /\ last.op = "serialize"
    /\ Len(userInfoList) = 1
    /\ Len(Content(fs[last.arg])) = 3
    /\ Content(fs[last.arg])[2] = Content(fs[last.arg])[3]
    /\ Content(fs[last.arg])[1] # Content(fs[last.arg])[2]

\* The record at place k of the file a readFromFile step read, when the loop
\* got that far and the line decoded.
Decoded(k) == Len(userInfoList') >= Len(userInfoList) + k

RecordOf(k) == userInfoList'[Len(userInfoList) + k]

\* C14: encoding a record and decoding the resulting line yields a record with
\* the same name, gender, age, weight, waist, neck, height and lifestyle, and
\* with the same hip when the gender is female, hip 0.0 otherwise.
C14_RoundTrip ==
    [][last'.op = "readFromFile" =>
        \A i \in 1..Len(userInfoList), k \in 1..Len(Content(fs[last'.arg])) :
            Content(fs[last'.arg])[k] = Encode(userInfoList[i]) =>
                LET u == userInfoList[i]
                    d == Decode(Content(fs[last'.arg])[k])
                    back == [u EXCEPT !.hip = IF u.gender = "female" THEN u.hip ELSE 0]
                IN  /\ ~d.threw
                    /\ SameInputs(d.user, back)
                    /\ (Decoded(k) => SameInputs(RecordOf(k), back))]_vars

\* A token that is an integer, and one that is a real number, with nothing
\* before or after it.
IsInteger(token) ==
    LET d == Digits(SkipSign(token), 0, 0)
    IN  d.n > 0 /\ d.rest = ""

IsReal(token) ==
    LET ip == Digits(SkipSign(token), 0, 0)
        fp == IF ip.rest # "" /\ Head(ip.rest) = "."
              THEN Digits(Tail(ip.rest), 0, 0)
              ELSE [n |-> 0, val |-> 0, rest |-> ip.rest]
    IN  ip.n + fp.n > 0 /\ fp.rest = ""

\* The token at a place of a line, empty when the line has fewer tokens.
Token(line, k) == IF k <= Len(Split(line)) THEN Split(line)[k] ELSE ""

\* The rest of a line from its k-th token on.
Rest(line, k) == IF k <= Len(Split(line)) THEN Join(SubSeq(Split(line), k, Len(Split(line)))) ELSE ""

C16_ParseFailure ==
    [][last'.op = "readFromFile" =>
        \A k \in 1..Len(Content(fs[last'.arg])) :
            LET line == Content(fs[last'.arg])[k]
                bad  == \/ ~IsInteger(Token(line, 3))
                        \/ \E n \in {4, 5, 6, 8} : ~IsReal(Token(line, n))
            IN  (Len(userInfoList') >= Len(userInfoList) + k - 1 /\ bad) =>
                    /\ status' = "threw"
                    /\ out' # <<>>
                    /\ out'[Len(out')] \in {"stoi", "stod"}
                    /\ Len(userInfoList') = Len(userInfoList) + k - 1]_vars

\* A source that cannot be opened, and one that exists with zero bytes.
CannotOpen(f) == fs[f] = NoFile \/ fs[f] = Unopenable

ZeroBytes(f) == ~CannotOpen(f) /\ fs[f] # Directory /\ Len(fs[f]) = 0

\* The source a filter of the statistics loads for a method, "" for none.
SourceOf(method) ==
    IF method = "bmi" THEN "bmi_user_data.csv"
    ELSE IF method = "USArmy" THEN "us_user_data.csv"
    ELSE ""

\* The operation ended with that exception and nothing else was printed.
FailedWith(what) == status' = "threw" /\ out' = <<what>>

\* C17: readFromFile, HealthAssistant::massLoadAndCompute and
\* UserStats::massLoadAndCompute (reached through the filters and
\* GetFullStats) end with the cannot-open error when the source cannot be
\* opened and with the file-is-empty error when it has zero bytes; the two
\* errors differ, the operation stops there with the registry as it was, and
\* never returns as a load of zero records.
C17_NotFoundAndEmpty ==
    [][/\ \A f \in FileNames : ExcCannotOpen \o f # ExcEmpty \o f
       /\ (last'.op \in {"readFromFile", "massLoadAndCompute"} =>
            /\ (CannotOpen(last'.arg) =>
                    FailedWith(ExcCannotOpen \o last'.arg) /\ userInfoList' = userInfoList)
            /\ (ZeroBytes(last'.arg) =>
                    FailedWith(ExcEmpty \o last'.arg) /\ userInfoList' = userInfoList))
       /\ (last'.op \in {"GetHealthyUsers", "GetUnfitUsers"} /\ SourceOf(last'.arg[1]) # "" =>
            /\ (CannotOpen(SourceOf(last'.arg[1])) =>
                    FailedWith(ExcCannotOpen \o SourceOf(last'.arg[1])))
            /\ (ZeroBytes(SourceOf(last'.arg[1])) =>
                    FailedWith(ExcEmpty \o SourceOf(last'.arg[1]))))
       /\ (last'.op = "GetFullStats" =>
            /\ (CannotOpen("bmi_user_data.csv") =>
                    FailedWith(ExcCannotOpen \o "bmi_user_data.csv"))
            /\ (ZeroBytes("bmi_user_data.csv") =>
                    FailedWith(ExcEmpty \o "bmi_user_data.csv"))
            /\ (CannotOpen("us_user_data.csv") \/ ZeroBytes("us_user_data.csv") =>
                    /\ status' = "threw"
                    /\ out'[Len(out')] \in
                          {ExcCannotOpen \o f : f \in FileNames}
                              \cup {ExcEmpty \o f : f \in FileNames}
                              \cup {"stoi", "stod"}
                    /\ (status' = "threw" /\ out'[Len(out')] \notin {"stoi", "stod"}
                         /\ ~CannotOpen("bmi_user_data.csv") /\ ~ZeroBytes("bmi_user_data.csv") =>
                            out'[Len(out')] =
                                IF CannotOpen("us_user_data.csv")
                                THEN ExcCannotOpen \o "us_user_data.csv"
                                ELSE ExcEmpty \o "us_user_data.csv")))]_vars

\* C17's case: the statistics have been asked for while the US-Navy source has
\* zero bytes and the BMI source holds records.
C17_Witness ==
    /\ last.op = "GetFullStats"
    /\ status = "threw"
    /\ Len(Content(fs["bmi_user_data.csv"])) > 0
    /\ out # <<>>
    /\ out[Len(out)] = ExcEmpty \o "us_user_data.csv"

\* A source all of whose lines decode, and the records its lines decode to.
Loadable(f) ==
    /\ ~CannotOpen(f)
    /\ ~ZeroBytes(f)
    /\ fs[f] # Directory
    /\ \A k \in 1..Len(fs[f]) : ~Decode(fs[f][k]).threw

Records(f) == <<>> \o [k \in 1..Len(fs[f]) |-> Decode(fs[f][k]).user]

NamesOf(records) == <<>> \o [i \in 1..Len(records) |-> records[i].name]

\* The record is Normal under the method of a filter: by the ratio of weight
\* and height for "bmi", by the cutoffs of its gender and age band for
\* "USArmy".
NormalUnder(method, u) ==
    IF method = "bmi" THEN RatioCategory(u) = "Bmi: Normal"
    ELSE /\ u.gender \in {"male", "female"}
         /\ u.age \in 20..79
         /\ ~USNavyLocals(u).bfp.nan
         /\ NavyCategory(u.gender, u.age, USNavyLocals(u).bfp.milli) = "USNavy: Normal"

\* C18: GetHealthyUsers with a method and a gender returns, in the order of
\* the lines of the method's source, the names of exactly the records whose
\* gender is the filter and which are Normal under that method, a name as
\* often as such records carry it.
C18_HealthyByMethodAndGender ==
    [][last'.op = "GetHealthyUsers" /\ SourceOf(last'.arg[1]) # ""
            /\ Loadable(SourceOf(last'.arg[1])) =>
        /\ status' = "running"
        /\ last'.ret =
              NamesOf(SelectSeq(Records(SourceOf(last'.arg[1])),
                        LAMBDA u : u.gender = last'.arg[2] /\ NormalUnder(last'.arg[1], u)))]_vars

\* C18's case: the healthy men under the US-Navy method were asked for, of a
\* source with two such men of the same name and a healthy woman between
\* them.
C18_Witness ==
    /\ last.op = "GetHealthyUsers"
    /\ last.arg = <<"USArmy", "male">>
    /\ status = "running"
    /\ last.ret = <<"john", "john">>
    /\ Len(Content(fs["us_user_data.csv"])) = 3

\* The number of records of a source with that gender.
OfGender(f, gender) ==
    Cardinality({k \in 1..Len(fs[f]) : Records(f)[k].gender = gender})

\* The names a sequence of names holds.
NameSet(names) == {names[i] : i \in 1..Len(names)}

\* C19: for the same source, method and gender, GetUnfitUsers returns the
\* names of the records of that gender that GetHealthyUsers does not: the
\* records that are not Normal under the method, those without a category
\* (age outside 20..79, or a gender the US-Navy method does not know)
\* included, so the two results together hold every record of that gender
\* once.
C19_UnfitIsComplement ==
    [][last'.op = "GetUnfitUsers" /\ SourceOf(last'.arg[1]) # ""
            /\ Loadable(SourceOf(last'.arg[1])) =>
        LET f == SourceOf(last'.arg[1])
        IN  /\ status' = "running"
            /\ last'.ret =
                  NamesOf(SelectSeq(Records(f),
                            LAMBDA u : u.gender = last'.arg[2] /\ ~NormalUnder(last'.arg[1], u)))
            /\ (last.op = "GetHealthyUsers" /\ last.arg = last'.arg =>
                    Len(last.ret) + Len(last'.ret) = OfGender(f, last'.arg[2]))
            /\ (last'.arg[1] = "USArmy" =>
                    \A k \in 1..Len(fs[f]) :
                        /\ Records(f)[k].gender = last'.arg[2]
                        /\ (Records(f)[k].age \notin 20..79
                                \/ Records(f)[k].gender \notin {"male", "female"})
                        => Records(f)[k].name \in NameSet(last'.ret))]_vars

\* C19's case: the unfit men under the US-Navy method were asked for, of a
\* source with a man of 18, who has no category.
C19_Witness ==
    /\ last.op = "GetUnfitUsers"
    /\ last.arg = <<"USArmy", "male">>
    /\ status = "running"
    /\ last.ret = <<"jack", "joe">>
    /\ out[1] = MsgAgeRange

\* The number of records of a source that are Normal under a method, of
\* that gender, of any gender for "".
NormalCount(f, method, gender) ==
    Cardinality({k \in 1..Len(fs[f]) :
                    /\ gender = "" \/ Records(f)[k].gender = gender
                    /\ NormalUnder(method, Records(f)[k])})

\* C20: the figures of GetFullStats are, for the BMI source, the numbers of
\* its records that are Normal by the ratio of weight and height and, for
\* the US-Navy source, the numbers of its records that are Normal by the
\* US-Navy cutoffs, each times 100 divided by the number of records of its
\* source; total users is the sum of the two numbers of records and the
\* gender split is each gender's count times 100 divided by that total.
C20_EachSourceItsStrategy ==
    [][last'.op = "GetFullStats" /\ Loadable("bmi_user_data.csv")
            /\ Loadable("us_user_data.csv") =>
        LET bmi == "bmi_user_data.csv"
            us  == "us_user_data.csv"
            s   == last'.ret
        IN  /\ status' = "running"
            /\ s.totalUsers = Len(fs[bmi]) + Len(fs[us])
            /\ s.male = ((OfGender(bmi, "male") + OfGender(us, "male")) * 100) \div s.totalUsers
            /\ s.female = ((OfGender(bmi, "female") + OfGender(us, "female")) * 100) \div s.totalUsers
            /\ s.healthyBmi = (NormalCount(bmi, "bmi", "") * 100) \div Len(fs[bmi])
            /\ s.healthyBmiMale = (NormalCount(bmi, "bmi", "male") * 100) \div Len(fs[bmi])
            /\ s.healthyBmiFemale = (NormalCount(bmi, "bmi", "female") * 100) \div Len(fs[bmi])
            /\ s.healthyUs = (NormalCount(us, "USArmy", "") * 100) \div Len(fs[us])
            /\ s.healthyUsMale = (NormalCount(us, "USArmy", "male") * 100) \div Len(fs[us])
            /\ s.healthyUsFemale = (NormalCount(us, "USArmy", "female") * 100) \div Len(fs[us])]_vars

\* C21: whenever GetFullStats gets to its divisions, that is whenever neither
\* load ended with an exception, the BMI source and the US-Navy source gave at
\* least one record each, so no divisor is 0 and the call returns.
C21_NoZeroTotal ==
    [][last'.op = "GetFullStats" /\ status' # "threw" =>
        /\ status' = "running"
        /\ last'.ret.bmiSize >= 1
        /\ last'.ret.usSize >= 1
        /\ last'.ret.totalUsers >= 1]_vars

\* A name without a capital letter and without a blank at either end.
Normalized(name) ==
    /\ \A k \in 1..Len(name) : IndexOf(UpperCase, SubSeq(name, k, k), 1) = 0
    /\ name # "" => Head(name) # " " /\ SubSeq(name, Len(name), Len(name)) # " "

\* C22: the name of every record of the registry is in lower case and has no
\* blank at either end, whether the record came from the prompts or from a
\* line of a file.
C22_NamesNormalized ==
    \A i \in 1..Len(userInfoList) : Normalized(userInfoList[i].name)

\* The fields no prompt and no line of a file supplies.
Underived(u) ==
    /\ u.bfp = <<0, "">>
    /\ u.daily_calories = 0
    /\ u.carbs = 0 /\ u.protein = 0 /\ u.fat = 0

\* C23: a record the prompts or readFromFile add has bfp = (0, ""),
\* daily_calories = 0 and carbs = protein = fat = 0 whatever was typed and
\* whatever the line holds, and in a record of the registry bfp changes only
\* in a strategy step on its name, daily_calories only in a getDailyCalories
\* step and the macros only in a getMealPrep step.
C23_DerivedNeverInput ==
    [][/\ (last'.op \in {"addUserInfo", "readFromFile"} =>
            \A i \in 1..Len(userInfoList') :
                userInfoList'[i].ptr \notin Ptrs(userInfoList) => Underived(userInfoList'[i]))
       /\ \A i \in 1..Len(userInfoList), j \in 1..Len(userInfoList') :
            userInfoList[i].ptr = userInfoList'[j].ptr =>
                LET u == userInfoList[i]
                    v == userInfoList'[j]
                IN  /\ (v.bfp # u.bfp =>
                            last'.op \in Strategies /\ last'.arg = u.name)
                    /\ (v.daily_calories # u.daily_calories =>
                            last'.op = "getDailyCalories" /\ last'.arg = u.name)
                    /\ (<<v.carbs, v.protein, v.fat>> # <<u.carbs, u.protein, u.fat>> =>
                            last'.op = "getMealPrep" /\ last'.arg = u.name)]_vars

\* C23's case: a line with more than nine fields has been read into a registry
\* that holds a record whose calories and macros were computed: the new
\* record has none.
C23_Witness ==
    /\ last.op = "readFromFile"
    /\ status = "running"
    /\ \E i \in 1..Len(userInfoList) :
          /\ created[userInfoList[i].ptr].via = "readFromFile"
          /\ userInfoList[i].lifestyle = "very,lazy"
          /\ Underived(userInfoList[i])
    /\ \E i \in 1..Len(userInfoList) :
          /\ userInfoList[i].daily_calories # 0
          /\ userInfoList[i].carbs # 0

\* The hips a record is compared under.
Hips == {0, 900, 975}

\* C24: hip is consulted only for a woman: on a record that is not female the
\* US-Navy method, getDailyCalories and getMealPrep store what they store for
\* the same record with any other hip, and serialize writes the line it
\* writes for the same record with any other hip.
C24_HipOnlyForFemale ==
    [][/\ (last'.op \in {"USNavyMethod", "getDailyCalories", "getMealPrep"}
            /\ Named(userInfoList, last'.arg) # {} =>
            LET i == Min(Named(userInfoList, last'.arg))
                u == userInfoList[i]
                v == userInfoList'[i]
            IN  u.gender # "female" =>
                  \A h \in Hips :
                     LET w == [u EXCEPT !.hip = h]
                     IN  /\ last'.op = "USNavyMethod" =>
                              /\ USNavyMethod_getBfp(w) = USNavyMethod_getBfp(u)
                              /\ v.bfp \in {r.bfp : r \in USNavyMethod_getBfp(w)}
                         /\ last'.op = "getDailyCalories" =>
                              v.daily_calories = getDailyCalories(w).user.daily_calories
                         /\ last'.op = "getMealPrep" =>
                              <<v.carbs, v.protein, v.fat>> =
                                <<getMealPrep(w).carbs, getMealPrep(w).protein, getMealPrep(w).fat>>)
       /\ (last'.op = "serialize" /\ fs'[last'.arg] # fs[last'.arg] =>
            \A k \in 1..Len(userInfoList) :
                userInfoList[k].gender # "female" =>
                    \A h \in Hips :
                        Content(fs'[last'.arg])[Len(Content(fs[last'.arg])) + k]
                            = Encode([userInfoList[k] EXCEPT !.hip = h]))]_vars

\* C24's case: the registry holds a man with a hip of 97.5 read from a file,
\* a strategy has run on him and the registry has been serialized.
C24_Witness ==
    /\ last.op = "serialize"
    /\ \E i \in 1..Len(userInfoList) :
          /\ userInfoList[i].gender = "male"
          /\ userInfoList[i].hip = 975
          /\ userInfoList[i].bfp[2] # ""
          /\ Content(fs[last.arg])[Len(Content(fs[last.arg])) - Len(userInfoList) + i]
                = Encode(userInfoList[i])

\* The names of the records of a source that are, or are not, Normal under a
\* method, in the order of the lines.
NamesUnder(f, method, normal) ==
    NamesOf(SelectSeq(Records(f), LAMBDA u : NormalUnder(method, u) <=> normal))

\* C25: the overloads of GetHealthyUsers and GetUnfitUsers without a gender
\* return the names of the users of every gender that are healthy, or unfit,
\* under the method given: those of the BMI source for "bmi", those of the
\* US-Navy source for "USArmy".
C25_ByMethodAllGenders ==
    [][last'.op \in {"GetHealthyUsers(method)", "GetUnfitUsers(method)"}
            /\ SourceOf(last'.arg[1]) # "" /\ status' = "running"
            /\ Loadable(SourceOf(last'.arg[1])) =>
        last'.ret = NamesUnder(SourceOf(last'.arg[1]), last'.arg[1],
                               last'.op = "GetHealthyUsers(method)")]_vars

\* The lines that show a name of the model.
NameLines == {center("Name: " \o n, 60) : n \in CallNames}

\* C26: the registry is one for all strategy objects: display through an
\* object of either class shows every record of the registry as it is,
\* whichever object added, loaded or enriched it, and the same as through an
\* object of the other class; deleting an object leaves the registry as it
\* is; and a strategy run on a record stores its own result whatever an
\* earlier strategy had stored there.
C26_OneSharedRegistry ==
    [][/\ (last'.op = "display" =>
            /\ userInfoList' = userInfoList
            /\ \A m \in Strategies : out' = display(m, userInfoList, last'.arg[2])
            /\ (last'.arg[2] = "all" =>
                    /\ SelectSeq(out', LAMBDA l : l \in NameLines)
                          = [i \in 1..Len(userInfoList) |->
                                center("Name: " \o userInfoList[i].name, 60)]
                    /\ SelectSeq(out', LAMBDA l : Len(SkipSpace(l)) > 20
                                    /\ SubSeq(SkipSpace(l), 1, 20) = "Body Fat Percentage:")
                          = [i \in 1..Len(userInfoList) |->
                                center("Body Fat Percentage: "
                                    \o FixedWhole(userInfoList[i].bfp[1]) \o "% ("
                                    \o userInfoList[i].bfp[2] \o ")", 60)]))
       /\ (last'.op = "delete ha" =>
            /\ userInfoList' = userInfoList
            /\ created' = created
            /\ erased' = erased)
       /\ (last'.op \in Strategies /\ Named(userInfoList, last'.arg) # {}
                /\ status' = "running" =>
            LET i == Min(Named(userInfoList, last'.arg))
            IN  /\ userInfoList'[i].bfp
                      \in {r.bfp : r \in getBfp(last'.op, [userInfoList[i] EXCEPT !.bfp = NoBfp])}
                /\ (last'.op = "BmiMethod" => userInfoList'[i].bfp[2] \in BmiCategories)
                /\ (last'.op = "USNavyMethod" => userInfoList'[i].bfp[2] \notin BmiCategories))]_vars

\* C26's case: through an object of class BmiMethod the registry is displayed
\* with a record that an object of class USNavyMethod loaded and computed and
\* on which the BMI method ran afterwards.
C26_Witness ==
    /\ last.op = "display"
    /\ last.arg = <<"BmiMethod", "all">>
    /\ \E i \in 1..Len(userInfoList) :
          /\ created[userInfoList[i].ptr].via = "USNavyMethod"
          /\ created[userInfoList[i].ptr].rec.bfp[2] \notin BmiCategories
          /\ userInfoList[i].bfp[2] \in BmiCategories
          /\ \E k \in 1..Len(out) :
                out[k] = center("Body Fat Percentage: "
                            \o FixedWhole(userInfoList[i].bfp[1]) \o "% ("
                            \o userInfoList[i].bfp[2] \o ")", 60)

\* The steps of readFromFile and massLoadAndCompute.
Reloads == {"readFromFile", "massLoadAndCompute"}

\* What a file keeps of a record: every input, and 0 for the hip of one who
\* is not female.
Persisted(u) == [u EXCEPT !.hip = IF u.gender = "female" THEN u.hip ELSE 0]

\* The file holds the lines of the registry's records, one each, in order.
SerializedFromRegistry(file) ==
    /\ Len(file) = Len(userInfoList)
    /\ \A i \in 1..Len(file) : file[i] = Encode(userInfoList[i])

\* C27: a readFromFile or massLoadAndCompute that returns normally appends one
\* record per line of the source, in line order, after the records the registry
\* held, which stay as they were and where they were; and when the source holds
\* the lines serialized from the registry, every record is there a second time:
\* the record at the same place among the appended ones has its persisted
\* fields.
C27_AppendPerLine ==
    [][last'.op \in Reloads /\ status' = "running" =>
        LET lines == Lines(fs[last'.arg])
            n == Len(userInfoList)
        IN  /\ Len(userInfoList') = n + Len(lines)
            /\ SubSeq(userInfoList', 1, n) = userInfoList
            /\ \A k \in 1..Len(lines) :
                    SameInputs(userInfoList'[n + k], Decode(lines[k]).user)
            /\ (SerializedFromRegistry(lines) =>
                    \A i \in 1..n :
                        SameInputs(userInfoList'[n + i], Persisted(userInfoList[i])))]_vars

\* The lines of a file that do not decode.
Failing(lines) == {k \in 1..Len(lines) : Decode(lines[k]).threw}

\* C28: after a readFromFile or massLoadAndCompute that ends with an exception
\* the registry is what it was before the call followed by the records of the
\* lines before the failing one: unchanged when the source is not found or
\* empty, and with the records of lines 1..k-1 appended when line k does not
\* decode. The file is as it was.
C28_AbortedNotRolledBack ==
    [][last'.op \in Reloads /\ status' = "threw" =>
        LET file == fs[last'.arg]
            n == Len(userInfoList)
        IN  /\ fs' = fs
            /\ IF CannotOpen(last'.arg) \/ ZeroBytes(last'.arg)
               THEN userInfoList' = userInfoList
               ELSE /\ Failing(Lines(file)) # {}
                    /\ LET k == Min(Failing(Lines(file)))
                       IN  /\ Len(userInfoList') = n + k - 1
                           /\ SubSeq(userInfoList', 1, n) = userInfoList
                           /\ \A j \in 1..(k - 1) :
                                 SameInputs(userInfoList'[n + j], Decode(Lines(file)[j]).user)]_vars

\* C28's case: the registry held a record of the prompts when readFromFile
\* read a file whose first line decodes and whose second line does not; the
\* first line's record is in the registry after the exception.
C28_Witness ==
    /\ last.op = "readFromFile"
    /\ status = "threw"
    /\ ~CannotOpen(last.arg)
    /\ Len(Lines(fs[last.arg])) >= 2
    /\ Min(Failing(Lines(fs[last.arg]))) = 2
    /\ Len(userInfoList) = 2
    /\ created[userInfoList[1].ptr].via = "prompt"
    /\ created[userInfoList[2].ptr].via = "readFromFile"
    /\ SameInputs(userInfoList[2], Decode(Lines(fs[last.arg])[1]).user)

\* The value of the table for the record, 0 where the table has none.
TableValue(u) ==
    IF /\ u.gender \in {"male", "female"}
       /\ u.age >= 19
       /\ u.lifestyle \in {"sedentary", "moderate", "active"}
    THEN CalorieTable[u.gender][CalorieBand(u.age)][u.lifestyle]
    ELSE 0

\* The macronutrients of a record hold the split of the calories: half of
\* them in carbs and three tenths in protein at 4 kcal a gram, a fifth in fat
\* at 9 kcal a gram.
SplitOf(u, calories) ==
    /\ 8 * u.carbs = calories * 3600
    /\ 40 * u.protein = 3 * calories * 3600
    /\ 45 * u.fat = calories * 3600

\* C29: after every step each record of the registry has daily_calories 0 or
\* the table value of its gender, age and lifestyle, and macronutrients that
\* are all 0 or the split of its daily_calories; a record massLoadAndCompute
\* adds has the table value and the split of it; and a dailyCalories step
\* leaves the macronutrients as they were, so those that macroSplit stored
\* from daily_calories 0 the step before stay 0 beside the new calories.
C29_CaloriesBeforeMacros ==
    [][/\ \A i \in 1..Len(userInfoList') :
            LET u == userInfoList'[i]
            IN  /\ u.daily_calories \in {0, TableValue(u)}
                /\ SplitOf(u, 0) \/ SplitOf(u, u.daily_calories)
       /\ (last'.op = "massLoadAndCompute" =>
            \A p \in (Len(created) + 1)..Len(created') :
                created'[p].via \in Strategies =>
                    /\ \E i \in 1..Len(userInfoList') : userInfoList'[i] = created'[p].rec
                    /\ created'[p].rec.daily_calories = TableValue(created'[p].rec)
                    /\ SplitOf(created'[p].rec, created'[p].rec.daily_calories))
       /\ (last'.op = "getDailyCalories" /\ Named(userInfoList, last'.arg) # {} =>
            LET i == Min(Named(userInfoList, last'.arg))
            IN  /\ userInfoList'[i].carbs = userInfoList[i].carbs
                /\ userInfoList'[i].protein = userInfoList[i].protein
                /\ userInfoList'[i].fat = userInfoList[i].fat
                /\ userInfoList'[i].daily_calories = TableValue(userInfoList[i])
                /\ (/\ last.op = "getMealPrep"
                    /\ last.arg = last'.arg
                    /\ userInfoList[i].daily_calories = 0
                    => SplitOf(userInfoList'[i], 0)))]_vars

\* C29's case: dailyCalories has stored a table value in a record of the
\* prompts whose macronutrients are 0, beside a record massLoadAndCompute
\* added with its calories and their split.
C29_Witness ==
    /\ last.op = "getDailyCalories"
    /\ Named(userInfoList, last.arg) # {}
    /\ LET u == userInfoList[Min(Named(userInfoList, last.arg))]
       IN  /\ created[u.ptr].via = "prompt"
           /\ u.daily_calories = TableValue(u)
           /\ u.daily_calories > 0
           /\ SplitOf(u, 0)
    /\ \E j \in 1..Len(userInfoList) :
          /\ created[userInfoList[j].ptr].via \in Strategies
          /\ userInfoList[j].daily_calories > 0
          /\ SplitOf(userInfoList[j], userInfoList[j].daily_calories)

\* The fields a computation stores.
DerivedFields == {"bfp", "daily_calories", "carbs", "protein", "fat"}

\* Two records with the same inputs and the same computed fields.
SameRecord(u, v) == SameInputs(u, v) /\ \A f \in DerivedFields : u[f] = v[f]

\* The records a step appended to the registry.
Appended == SubSeq(userInfoList', Len(userInfoList) + 1, Len(userInfoList'))

\* C30: the vector UserStats::massLoadAndCompute returns for a source and a
\* strategy is the sequence of records HealthAssistant::massLoadAndCompute
\* appends to the registry from that source through an object of that
\* strategy: as many records, in the same order, with the same inputs, bfp
\* value and category, daily_calories and macronutrients, and the one ends
\* with an exception exactly when the other does.
C30_StatsAgreesWithRegistry ==
    [][last'.op = "massLoadAndCompute" =>
        \A m \in Strategies :
            (\A i \in 1..Len(Appended) : created'[Appended[i].ptr].via = m) =>
                \A st \in UserStats_massLoadAndCompute(last'.arg, m) :
                    /\ st.threw <=> status' = "threw"
                    /\ Len(st.list) = Len(Appended)
                    /\ \A i \in 1..Len(Appended) : SameRecord(st.list[i], Appended[i])]_vars

====
